---- MODULE Spec2Model ----
(***************************************************************************)
(* Model of the shipment-management server: the field schema store         *)
(* (routes/fieldsConfig over models/FieldsConfig), the spreadsheet import  *)
(* pipeline (routes/import.ts) and the shipment collection it writes.      *)
(*                                                                         *)
(* JavaScript objects are functions from property names to values; an      *)
(* absent property is a name outside the DOMAIN.  Strings that the code    *)
(* parses or matches (keys, cells, numbers) are sequences of characters.   *)
(***************************************************************************)
EXTENDS Integers, Sequences, FiniteSets, TLC

VARIABLES
    fieldsConfigs,   \* the FieldsConfig collection: a set of documents
    inflight,        \* create/duplicate requests between their reads and their save
    request,         \* the request handled by the last step
    response,        \* the reply to it
    tempFiles,       \* uploads/temp: staged import files, by file name
    shipments        \* the Shipment collection: a set of documents

vars == <<fieldsConfigs, inflight, request, response, tempFiles, shipments>>


(***************************************************************************)
(* Bounds                                                                  *)
(***************************************************************************)
MaxFields == 2     \* documents in the FieldsConfig collection
MaxOrder == 3       \* largest order the store may assign
MaxBulk == 2        \* items in one bulk-update / reorder payload
MaxInFlight == 2    \* concurrent create/duplicate requests
MaxRows == 3        \* data rows in a staged file

(***************************************************************************)
(* JavaScript helpers                                                      *)
(***************************************************************************)
Has(o, f) == f \in DOMAIN o

\* Object.assign(a, b) / {...a, ...b}
Assign(a, b) == [f \in (DOMAIN a) \cup (DOMAIN b) |-> IF f \in DOMAIN b THEN b[f] ELSE a[f]]

\* const {f, ...rest} = o
Without(o, f) == [g \in (DOMAIN o) \ {f} |-> o[g]]

\* item.key, the empty string standing for undefined
KeyOf(item) == IF Has(item, "key") THEN item.key ELSE <<>>

Letters == {"a", "b", "c", "d", "e", "o", "p", "t", "w", "x", "y"}
Digits == {"0", "1", "2", "3", "4", "5", "6", "7", "8", "9"}

Max(S) == CHOOSE m \in S : \A n \in S : n <= m

\* s.includes(part)
Includes(s, part) ==
    \E i \in 0..(Len(s) - Len(part)) : SubSeq(s, i + 1, i + Len(part)) = part

(***************************************************************************)
(* Field keys, as character sequences                                      *)
(***************************************************************************)
K_date == <<"d", "a", "t", "e">>
K_awb == <<"a", "w", "b">>
K_awb_copy == <<"a", "w", "b", "_", "c", "o", "p", "y">>
K_9x == <<"9", "x">>

ValidKeys == {K_date, K_awb, K_awb_copy}

\* /^[a-zA-Z][a-zA-Z0-9_]*$/.test(key)
KeyPattern(key) ==
    /\ Len(key) > 0
    /\ key[1] \in Letters
    /\ \A i \in 2..Len(key) : key[i] \in Letters \cup Digits \cup {"_"}

(***************************************************************************)
(* models/FieldsConfig                                                     *)
(***************************************************************************)
FieldType == {"text", "number", "date", "time", "datetime", "enum", "boolean",
              "checkbox", "radio", "email", "phone", "url", "textarea", "file",
              "password", "color", "range"}

Widths == {"full", "half", "third", "quarter"}

\* enumValues validator: `this` is the document being validated
EnumValuesValidator(this, values) ==
    IF this.type = "enum" \/ this.type = "radio" THEN Len(values) > 0 ELSE TRUE

\* new FieldsConfig(obj): schema defaults fill the paths the object leaves out
NewFieldsConfig(obj) ==
    Assign([enumValues |-> <<>>, visible |-> TRUE, required |-> FALSE,
            width |-> "full"], obj)

\* document validation run by save()
ValidateDoc(doc) ==
    /\ Has(doc, "key") /\ KeyPattern(doc.key)
    /\ Has(doc, "label") /\ doc.label # ""
    /\ Has(doc, "type") /\ doc.type \in FieldType
    /\ EnumValuesValidator(doc, doc.enumValues)
    /\ Has(doc, "order") /\ doc.order >= 0
    /\ doc.width \in Widths

\* update validators run by findOneAndUpdate(..., {runValidators: true}):
\* only the paths named in the update are validated
ValidateUpdate(updates) ==
    /\ Has(updates, "label") => updates.label # ""
    /\ Has(updates, "type") => updates.type \in FieldType
    /\ Has(updates, "order") => updates.order >= 0
    /\ Has(updates, "width") => updates.width \in Widths

\* FieldsConfig.findOne({key})
FindOne(coll, key) == {d \in coll : d.key = key}

\* FieldsConfig.findOne().sort({order: -1}), then lastField ? lastField.order + 1 : 1
NextOrder(coll) == IF coll = {} THEN 1 ELSE Max({d.order : d \in coll}) + 1

\* (variant: the collection has no unique index)
UniqueIndexAllows_NoIndex(coll, doc) == TRUE

\* the unique index on key
UniqueIndexAllows(coll, doc) == \A d \in coll : d.key # doc.key

\* fieldConfig.save() of a new document: [ok, error, coll]
SaveNew(coll, doc) ==
    IF ~ValidateDoc(doc)
    THEN [ok |-> FALSE, error |-> "ValidationError", coll |-> coll]
    ELSE IF ~UniqueIndexAllows(coll, doc)
    THEN [ok |-> FALSE, error |-> "E11000", coll |-> coll]
    ELSE [ok |-> TRUE, error |-> "", coll |-> coll \cup {doc}]

\* getDefaultConfigs(): the table, cut to its first entry
DefaultConfigs ==
    << [key |-> K_date, label |-> "Date", type |-> "date", visible |-> TRUE,
        order |-> 1, required |-> TRUE, width |-> "third"] >>

\* FieldsConfig.insertMany(docs): ordered, stops at the first duplicate key
RECURSIVE InsertMany(_, _)
InsertMany(coll, docs) ==
    IF docs = <<>> THEN coll
    ELSE LET s == SaveNew(coll, NewFieldsConfig(Head(docs)))
         IN  IF s.ok THEN InsertMany(s.coll, Tail(docs)) ELSE coll

(***************************************************************************)
(* routes/fieldsConfig: what each handler decides from what it read        *)
(***************************************************************************)
\* the reply: res.status(status).json(...), or an error thrown to the error
\* middleware.  An ApiError carries its own status; for any other error (a
\* validation error or a duplicate key error raised by save) the model uses
\* 500, and the properties rely only on such a reply being an error.
Reply(status, error) == [status |-> status, error |-> error]

\* JavaScript truthiness of a property of the request body: a key (a character
\* sequence) and a label or type (an atomic string)
TruthyKey(o, f) == Has(o, f) /\ o[f] # <<>>
Truthy(o, f) == Has(o, f) /\ o[f] # ""

IsEnumOrRadio(type) == type = "enum" \/ type = "radio"

\* the properties create copies from the body into the document
CreateProps == {"key", "label", "type", "enumValues", "visible", "required", "width"}

\* POST /: the checks and the order computation; doc is the document to save
CreateChecks(coll, body) ==
    IF ~(TruthyKey(body, "key") /\ Truthy(body, "label") /\ Truthy(body, "type"))
    THEN [status |-> 400, error |-> "KeyLabelTypeRequired"]
    ELSE IF ~KeyPattern(body.key)
    THEN [status |-> 400, error |-> "KeyFormat"]
    ELSE IF FindOne(coll, body.key) # {}
    THEN [status |-> 400, error |-> "KeyExists"]
    ELSE IF IsEnumOrRadio(body.type)
            /\ (~Has(body, "enumValues") \/ Len(body.enumValues) = 0)
    THEN [status |-> 400, error |-> "EnumValuesRequired"]
    ELSE LET fieldOrder == IF Has(body, "order") /\ body.order # 0
                           THEN body.order ELSE NextOrder(coll)
             props == [f \in (DOMAIN body) \cap CreateProps |-> body[f]]
         IN  [status |-> 0, error |-> "",
              doc |-> NewFieldsConfig(Assign(props, [order |-> fieldOrder]))]

\* (variant: the handler does not delete updates.key)
UpdateOutcome_KeepsKey(doc, body) ==
    LET newDoc == Assign(doc, body)
    IN  IF ~ValidateDoc(newDoc)
        THEN [status |-> 500, error |-> "ValidationError", doc |-> doc]
        ELSE [status |-> 200, error |-> "", doc |-> newDoc]

\* PUT /:key on the document it found: [status, error, doc]
UpdateOutcome(doc, body) ==
    LET updates == Without(body, "key")
        enumValues == IF Has(updates, "enumValues") THEN updates.enumValues
                      ELSE doc.enumValues
        newDoc == Assign(doc, updates)
    IN  IF Has(updates, "type") /\ IsEnumOrRadio(updates.type) /\ Len(enumValues) = 0
        THEN [status |-> 400, error |-> "EnumValuesRequired", doc |-> doc]
        ELSE IF Has(updates, "order") /\ updates.order < 0
        THEN [status |-> 400, error |-> "OrderNegative", doc |-> doc]
        ELSE IF ~ValidateDoc(newDoc)
        THEN [status |-> 500, error |-> "ValidationError", doc |-> doc]
        ELSE [status |-> 200, error |-> "", doc |-> newDoc]

\* POST /duplicate/:key: the checks and the copy; doc is the document to save
DuplicateChecks(coll, key, body) ==
    IF ~(TruthyKey(body, "newKey") /\ Truthy(body, "newLabel"))
    THEN [status |-> 400, error |-> "NewKeyLabelRequired"]
    ELSE IF ~KeyPattern(body.newKey)
    THEN [status |-> 400, error |-> "KeyFormat"]
    ELSE IF FindOne(coll, key) = {}
    THEN [status |-> 404, error |-> "NotFound"]
    ELSE IF FindOne(coll, body.newKey) # {}
    THEN [status |-> 400, error |-> "KeyExists"]
    ELSE LET sourceField == CHOOSE d \in FindOne(coll, key) : TRUE
         IN  [status |-> 0, error |-> "",
              doc |-> NewFieldsConfig(
                          [key |-> body.newKey, label |-> body.newLabel,
                           type |-> sourceField.type,
                           enumValues |-> sourceField.enumValues,
                           visible |-> sourceField.visible,
                           order |-> NextOrder(coll),
                           required |-> sourceField.required,
                           width |-> sourceField.width])]

\* (variant: an item's visible flips the stored flag instead of setting it)
BulkItemApply_TogglesVisible(coll, item) ==
    LET updates == Without(item, "key")
    IN  IF ~TruthyKey(item, "key") \/ ~ValidateUpdate(updates) THEN coll
        ELSE {IF d.key = item.key
              THEN Assign(d, IF Has(updates, "visible")
                             THEN Assign(updates, [visible |-> ~d.visible])
                             ELSE updates)
              ELSE d : d \in coll}

\* one item of PUT /bulk/update: the collection after its findOneAndUpdate
BulkItemApply(coll, item) ==
    LET updates == Without(item, "key")
    IN  IF ~TruthyKey(item, "key") \/ ~ValidateUpdate(updates) THEN coll
        ELSE {IF d.key = item.key THEN Assign(d, updates) ELSE d : d \in coll}

\* (variant: the loop stops at the first item whose key is not in the store)
RECURSIVE ApplyAll_StopAtMissing(_, _)
ApplyAll_StopAtMissing(coll, items) ==
    IF items = <<>> \/ FindOne(coll, KeyOf(Head(items))) = {} THEN coll
    ELSE ApplyAll_StopAtMissing(BulkItemApply(coll, Head(items)), Tail(items))

\* fields.map(...): every item's update is issued, whatever the others do
RECURSIVE ApplyAll(_, _)
ApplyAll(coll, items) ==
    IF items = <<>> THEN coll
    ELSE ApplyAll(BulkItemApply(coll, Head(items)), Tail(items))

\* Promise.all over the items: the first rejection decides the reply
BulkReply(items) ==
    IF \E i \in DOMAIN items : ~TruthyKey(items[i], "key")
    THEN Reply(400, "KeyRequired")
    ELSE IF \E i \in DOMAIN items : ~ValidateUpdate(Without(items[i], "key"))
    THEN Reply(500, "ValidationError")
    ELSE Reply(200, "")

\* one item of POST /reorder: findOneAndUpdate({key}, {order}) without validators
ReorderItemApply(coll, item) ==
    {IF d.key = item.key THEN Assign(d, [order |-> item.order]) ELSE d : d \in coll}

RECURSIVE ReorderAll(_, _)
ReorderAll(coll, items) ==
    IF items = <<>> THEN coll
    ELSE ReorderAll(ReorderItemApply(coll, Head(items)), Tail(items))

(***************************************************************************)
(* Requests the model issues against the schema store                      *)
(***************************************************************************)
CopyBody == [key |-> K_awb_copy, label |-> "AWB (Copy)", required |-> TRUE,
             width |-> "third"]

AwbBody == [key |-> K_awb, label |-> "AWB Number",
             type |-> "text", required |-> TRUE, width |-> "third"]

CreateBodies ==
    { Assign(CopyBody, [type |-> "text"]),
      Assign(CopyBody, [type |-> "enum", enumValues |-> <<"Paid">>]),
      Assign(CopyBody, [type |-> "enum"]),
      Assign(CopyBody, [type |-> "radio", enumValues |-> <<>>]),
      Assign(CopyBody, [type |-> "checkbox"]),
      Assign(AwbBody, [order |-> 0]),
      Assign(AwbBody, [order |-> 2]),
      Assign(CopyBody, [type |-> "text", key |-> K_9x]),
      Without(AwbBody, "label") }

UpdateKeys == {K_awb, K_awb_copy}

UpdateBodies ==
    { [type |-> "enum"],
      [type |-> "enum", enumValues |-> <<"Paid">>],
      [enumValues |-> <<>>],
      [key |-> K_date, order |-> 1],
      [key |-> K_date, order |-> 0 - 1] }

BulkItems ==
    { [key |-> K_awb, order |-> 1, visible |-> FALSE],
      [key |-> K_awb_copy, order |-> 2],
      [key |-> K_awb, type |-> "enum"],
      [visible |-> FALSE] }

ReorderItems == { [key |-> K_awb, order |-> 1],
                  [key |-> K_awb_copy, order |-> 2],
                  [key |-> K_awb, order |-> 0 - 1] }

DuplicateKeys == {K_awb, K_awb_copy}

DuplicateBodies ==
    { [newKey |-> K_awb_copy, newLabel |-> "AWB (Copy)"],
      [newKey |-> K_date, newLabel |-> "AWB (Copy)"],
      [newKey |-> K_9x, newLabel |-> "AWB (Copy)"],
      [newKey |-> K_awb_copy] }

SeqsUpTo(S, n) == UNION {[1..m -> S] : m \in 0..n}

\* Payloads name each key at most once, as the Dashboard builds them (one item
\* per field), so the order in which the database applies the concurrently
\* issued updates of one payload does not change the result.
Payloads(items) ==
    {f \in SeqsUpTo(items, MaxBulk) :
        \A i, j \in DOMAIN f : KeyOf(f[i]) = KeyOf(f[j]) => i = j}

(***************************************************************************)
(* The schema store, one request at a time                                 *)
(***************************************************************************)
Create(body) ==
    LET r == CreateChecks(fieldsConfigs, body)
        s == SaveNew(fieldsConfigs, r.doc)
    IN  /\ request' = [op |-> "create", key |-> IF Has(body, "key") THEN body.key ELSE <<>>]
        /\ IF r.status # 0
           THEN /\ fieldsConfigs' = fieldsConfigs
                /\ response' = Reply(r.status, r.error)
           ELSE /\ Cardinality(s.coll) <= MaxFields
                /\ r.doc.order <= MaxOrder
                /\ fieldsConfigs' = s.coll
                /\ response' = IF s.ok THEN Reply(201, "") ELSE Reply(500, s.error)
        /\ UNCHANGED <<inflight, tempFiles, shipments>>

Update(key, body) ==
    LET found == FindOne(fieldsConfigs, key)
        fieldConfig == CHOOSE d \in found : TRUE
        r == UpdateOutcome(fieldConfig, body)
    IN  /\ request' = [op |-> "update", key |-> key, body |-> body]
        /\ IF found = {}
           THEN /\ fieldsConfigs' = fieldsConfigs
                /\ response' = Reply(404, "NotFound")
           ELSE /\ fieldsConfigs' = (fieldsConfigs \ {fieldConfig}) \cup {r.doc}
                /\ response' = Reply(r.status, r.error)
        /\ UNCHANGED <<inflight, tempFiles, shipments>>

\* (variant: the values stored under the key are removed with the definition)
Delete_StripsStoredValues(key) ==
    /\ request' = [op |-> "delete", key |-> key]
    /\ IF FindOne(fieldsConfigs, key) = {}
       THEN /\ fieldsConfigs' = fieldsConfigs
            /\ response' = Reply(404, "NotFound")
            /\ shipments' = shipments
       ELSE /\ fieldsConfigs' = {d \in fieldsConfigs : d.key # key}
            /\ response' = Reply(200, "")
            /\ shipments' = {[f \in {g \in DOMAIN d : g # "awb" \/ key # K_awb} |-> d[f]] :
                                 d \in shipments}
    /\ UNCHANGED <<inflight, tempFiles>>

Delete(key) ==
    /\ request' = [op |-> "delete", key |-> key]
    /\ IF FindOne(fieldsConfigs, key) = {}
       THEN /\ fieldsConfigs' = fieldsConfigs
            /\ response' = Reply(404, "NotFound")
       ELSE /\ fieldsConfigs' = {d \in fieldsConfigs : d.key # key}
            /\ response' = Reply(200, "")
    /\ UNCHANGED <<inflight, tempFiles, shipments>>

BulkUpdate(fields) ==
    /\ request' = [op |-> "bulkUpdate", fields |-> fields]
    /\ fieldsConfigs' = ApplyAll(fieldsConfigs, fields)
    /\ response' = BulkReply(fields)
    /\ UNCHANGED <<inflight, tempFiles, shipments>>

Reorder(fieldOrders) ==
    /\ request' = [op |-> "reorder"]
    /\ fieldsConfigs' = ReorderAll(fieldsConfigs, fieldOrders)
    /\ response' = Reply(200, "")
    /\ UNCHANGED <<inflight, tempFiles, shipments>>

Initialize ==
    /\ request' = [op |-> "initialize"]
    /\ IF Cardinality(fieldsConfigs) > 0
       THEN /\ fieldsConfigs' = fieldsConfigs
            /\ response' = Reply(200, "")
       ELSE /\ fieldsConfigs' = InsertMany(fieldsConfigs, DefaultConfigs)
            /\ response' = Reply(201, "")
    /\ UNCHANGED <<inflight, tempFiles, shipments>>

Duplicate(key, body) ==
    LET r == DuplicateChecks(fieldsConfigs, key, body)
        s == SaveNew(fieldsConfigs, r.doc)
    IN  /\ request' = [op |-> "duplicate", key |-> key]
        /\ IF r.status # 0
           THEN /\ fieldsConfigs' = fieldsConfigs
                /\ response' = Reply(r.status, r.error)
           ELSE /\ Cardinality(s.coll) <= MaxFields
                /\ r.doc.order <= MaxOrder
                /\ fieldsConfigs' = s.coll
                /\ response' = IF s.ok THEN Reply(201, "") ELSE Reply(500, s.error)
        /\ UNCHANGED <<inflight, tempFiles, shipments>>

Init ==
    /\ fieldsConfigs = {}
    /\ inflight = <<>>
    /\ request = [op |-> "none"]
    /\ response = Reply(0, "")
    /\ tempFiles = <<>>
    /\ shipments = {}

Next ==
    \/ \E body \in CreateBodies : Create(body)
    \/ \E key \in UpdateKeys, body \in UpdateBodies : Update(key, body)
    \/ \E key \in ValidKeys : Delete(key)
    \/ \E fields \in Payloads(BulkItems) : BulkUpdate(fields)
    \/ \E fieldOrders \in Payloads(ReorderItems) : Reorder(fieldOrders)
    \/ Initialize
    \/ \E key \in DuplicateKeys, body \in DuplicateBodies : Duplicate(key, body)

Spec == Init /\ [][Next]_vars

(***************************************************************************)
(* The schema store with the handlers of create, duplicate and initialize  *)
(* interleaving: each first reads (its awaits on findOne/countDocuments),  *)
(* and saves in a later step                                               *)
(***************************************************************************)
RemoveAt(seq, i) == [j \in 1..(Len(seq) - 1) |-> IF j < i THEN seq[j] ELSE seq[j + 1]]

CreateRead(body) ==
    LET r == CreateChecks(fieldsConfigs, body)
    IN  /\ request' = [op |-> "create", key |-> IF Has(body, "key") THEN body.key ELSE <<>>]
        /\ IF r.status # 0
           THEN /\ response' = Reply(r.status, r.error)
                /\ inflight' = inflight
           ELSE /\ Len(inflight) < MaxInFlight
                /\ response' = Reply(0, "")
                /\ inflight' = Append(inflight, [op |-> "create", doc |-> r.doc])
        /\ UNCHANGED <<fieldsConfigs, tempFiles, shipments>>

DuplicateRead(key, body) ==
    LET r == DuplicateChecks(fieldsConfigs, key, body)
    IN  /\ request' = [op |-> "duplicate", key |-> key]
        /\ IF r.status # 0
           THEN /\ response' = Reply(r.status, r.error)
                /\ inflight' = inflight
           ELSE /\ Len(inflight) < MaxInFlight
                /\ response' = Reply(0, "")
                /\ inflight' = Append(inflight, [op |-> "duplicate", doc |-> r.doc])
        /\ UNCHANGED <<fieldsConfigs, tempFiles, shipments>>

\* (variant: the handler does not count the stored definitions)
InitializeRead_NoCount ==
    /\ request' = [op |-> "initialize"]
    /\ Len(inflight) < MaxInFlight
    /\ response' = Reply(0, "")
    /\ inflight' = Append(inflight, [op |-> "initialize"])
    /\ UNCHANGED <<fieldsConfigs, tempFiles, shipments>>

InitializeRead ==
    /\ request' = [op |-> "initialize"]
    /\ IF Cardinality(fieldsConfigs) > 0
       THEN /\ response' = Reply(200, "")
            /\ inflight' = inflight
       ELSE /\ Len(inflight) < MaxInFlight
            /\ response' = Reply(0, "")
            /\ inflight' = Append(inflight, [op |-> "initialize"])
    /\ UNCHANGED <<fieldsConfigs, tempFiles, shipments>>

\* the save() / insertMany() of the i-th request in flight
Save(i) ==
    LET entry == inflight[i]
        s == SaveNew(fieldsConfigs, entry.doc)
        inserted == InsertMany(fieldsConfigs, DefaultConfigs)
    IN  /\ request' = [op |-> "save", of |-> entry.op]
        /\ inflight' = RemoveAt(inflight, i)
        /\ IF entry.op = "initialize"
           THEN /\ Cardinality(inserted) <= MaxFields
                /\ fieldsConfigs' = inserted
                /\ response' = IF Cardinality(inserted) =
                                    Cardinality(fieldsConfigs) + Len(DefaultConfigs)
                                THEN Reply(201, "") ELSE Reply(500, "E11000")
           ELSE /\ Cardinality(s.coll) <= MaxFields
                /\ entry.doc.order <= MaxOrder
                /\ fieldsConfigs' = s.coll
                /\ response' = IF s.ok THEN Reply(201, "") ELSE Reply(500, s.error)
        /\ UNCHANGED <<tempFiles, shipments>>

InterleavedCreateBodies ==
    {Assign(CopyBody, [type |-> "text"]), Assign(CopyBody, [type |-> "checkbox"]), AwbBody}

NextInterleaved ==
    \/ \E body \in InterleavedCreateBodies : CreateRead(body)
    \/ \E body \in {[newKey |-> K_awb_copy, newLabel |-> "AWB (Copy)"]} :
           DuplicateRead(K_awb, body)
    \/ InitializeRead
    \/ \E i \in DOMAIN inflight : Save(i)
    \/ \E body \in {[key |-> K_date, order |-> 1]} : Update(K_awb, body)
    \/ \E fields \in {<<[key |-> K_awb_copy, order |-> 2]>>} : BulkUpdate(fields)
    \/ \E key \in {K_awb_copy, K_awb} : Delete(key)

SpecInterleaved == Init /\ [][NextInterleaved]_vars

(***************************************************************************)
(* PUT /:key with its two awaits apart: findOne loads the document, and    *)
(* save() writes the paths that Object.assign changed on the loaded copy   *)
(***************************************************************************)
\* the modified paths of a loaded document and their new values
Delta(loaded, newDoc) ==
    [p \in {q \in DOMAIN newDoc : ~Has(loaded, q) \/ loaded[q] # newDoc[q]} |-> newDoc[p]]

\* save() of a loaded document: $set of the modified paths on the stored
\* document of that key
SaveDelta(coll, key, delta) ==
    {IF d.key = key THEN Assign(d, delta) ELSE d : d \in coll}

\* PUT /:key up to its save: findOne, and the route's checks
UpdateRead(key, body) ==
    LET found == FindOne(fieldsConfigs, key)
        fieldConfig == CHOOSE d \in found : TRUE
        r == UpdateOutcome(fieldConfig, body)
    IN  /\ request' = [op |-> "update", key |-> key, body |-> body]
        /\ IF found = {}
           THEN /\ response' = Reply(404, "NotFound")
                /\ inflight' = inflight
           ELSE IF r.status = 400
           THEN /\ response' = Reply(r.status, r.error)
                /\ inflight' = inflight
           ELSE /\ Len(inflight) < MaxInFlight
                /\ response' = Reply(0, "")
                /\ inflight' = Append(inflight, [op |-> "update", key |-> key,
                                                 loaded |-> fieldConfig, body |-> body])
        /\ UNCHANGED <<fieldsConfigs, tempFiles, shipments>>

\* fieldConfig.save() of the i-th update in flight and the reply
UpdateSave(i) ==
    LET entry == inflight[i]
        r == UpdateOutcome(entry.loaded, entry.body)
    IN  /\ entry.op = "update"
        /\ request' = [op |-> "save", of |-> "update", key |-> entry.key,
                       body |-> entry.body]
        /\ inflight' = RemoveAt(inflight, i)
        /\ IF r.status # 200
           THEN /\ fieldsConfigs' = fieldsConfigs
                /\ response' = Reply(r.status, r.error)
           ELSE /\ fieldsConfigs' = SaveDelta(fieldsConfigs, entry.key,
                                              Delta(entry.loaded, r.doc))
                /\ response' = [status |-> 200, error |-> "", data |-> r.doc]
        /\ UNCHANGED <<tempFiles, shipments>>

ConcurrentUpdateBodies ==
    { [label |-> "AWB No"],
      [type |-> "enum", enumValues |-> <<"Paid">>],
      [type |-> "text", enumValues |-> <<>>],
      [visible |-> FALSE, order |-> 2] }

NextConcurrent ==
    \/ \E body \in {AwbBody, Assign(CopyBody, [type |-> "text"])} : Create(body)
    \/ \E body \in ConcurrentUpdateBodies : UpdateRead(K_awb, body)
    \/ \E i \in DOMAIN inflight : UpdateSave(i)
    \/ \E fields \in {<<[key |-> K_awb, order |-> 1, visible |-> FALSE]>>} :
           BulkUpdate(fields)

SpecConcurrent == Init /\ [][NextConcurrent]_vars

(***************************************************************************)
(* Strings and numbers of the import pipeline.  Cells, AWB numbers, pin    *)
(* codes and phone numbers are character sequences over digits, letters,   *)
(* blank, "+" and "-"; the decimal point and the exponent letter are not   *)
(* in this alphabet, so every number is an integer.                        *)
(***************************************************************************)
DigitValue(c) ==
    CASE c = "0" -> 0 [] c = "1" -> 1 [] c = "2" -> 2 [] c = "3" -> 3 [] c = "4" -> 4
      [] c = "5" -> 5 [] c = "6" -> 6 [] c = "7" -> 7 [] c = "8" -> 8 [] c = "9" -> 9

\* the number of blanks of s from position i on
RECURSIVE Blanks(_, _)
Blanks(s, i) == IF i <= Len(s) /\ s[i] = " " THEN 1 + Blanks(s, i + 1) ELSE 0

\* the length of the run of digits of s that starts at position i
RECURSIVE DigitRun(_, _)
DigitRun(s, i) == IF i <= Len(s) /\ s[i] \in Digits THEN 1 + DigitRun(s, i + 1) ELSE 0

\* the value of the n digits of s that start at position i
RECURSIVE Decimal(_, _, _)
Decimal(s, i, n) ==
    IF n = 0 THEN 0 ELSE Decimal(s, i, n - 1) * 10 + DigitValue(s[i + n - 1])

\* where the digits of a number start in s: after leading blanks and one sign
NumberStart(s) ==
    LET b == Blanks(s, 1)
    IN  IF b + 1 <= Len(s) /\ s[b + 1] \in {"-", "+"} THEN b + 2 ELSE b + 1

Negative(s) == NumberStart(s) >= 2 /\ s[NumberStart(s) - 1] = "-"

\* parseFloat(s): the longest numeric prefix of s, or NaN when there is none
ParseFloat(s) ==
    LET start == NumberStart(s)
        n == DigitRun(s, start)
        magnitude == Decimal(s, start, n)
    IN  IF n = 0 THEN [nan |-> TRUE, val |-> 0]
        ELSE [nan |-> FALSE, val |-> IF Negative(s) THEN 0 - magnitude ELSE magnitude]

\* s.trim()
RECURSIVE TrimEnd(_)
TrimEnd(s) ==
    IF Len(s) > 0 /\ s[Len(s)] = " " THEN TrimEnd(SubSeq(s, 1, Len(s) - 1)) ELSE s

Trim(s) == TrimEnd(SubSeq(s, Blanks(s, 1) + 1, Len(s)))

\* /^\d{6}$/.test(pincode)
validatePincode(pincode) == Len(pincode) = 6 /\ \A i \in 1..6 : pincode[i] \in Digits

\* /^[+]?[\d\s\-\(\)]{10,15}$/.test(phone)
validatePhone(phone) ==
    LET start == IF Len(phone) > 0 /\ phone[1] = "+" THEN 2 ELSE 1
        n == Len(phone) - start + 1
    IN  /\ n >= 10
        /\ n <= 15
        /\ \A i \in start..Len(phone) : phone[i] \in Digits \cup {" ", "-", "(", ")"}

(***************************************************************************)
(* models/Shipment                                                         *)
(***************************************************************************)
ShipmentPaths ==
    {"date", "pickupCustomerName", "pickupCustomerMoNo", "pickupRef", "awb",
     "courierPartner", "weight", "pinCode", "city", "state", "bookingCode",
     "baseAmount", "royaltyMargin", "totalBeforeGst", "gst", "totalAfterGst",
     "grandTotal", "saleCost", "customerName", "customerMoNo", "paymentStatus",
     "shipmentStatus", "createdBy", "updatedBy", "userId"}

PaymentStatus == {"Pending", "Paid", "Partial", "Refunded"}
ShipmentStatus == {"Created", "Picked", "InTransit", "Delivered", "RTS", "Cancelled"}

RequiredPaths ==
    {"date", "awb", "courierPartner", "weight", "pinCode", "city", "state",
     "createdBy", "updatedBy", "userId"}

\* the paths whose value is a character sequence, and those with trim: true
SequencePaths == {"awb", "pinCode", "pickupCustomerMoNo", "customerMoNo"}
TrimmedPaths == {"awb"}

\* the paths with min: [0, ...]
MinZeroPaths ==
    {"weight", "baseAmount", "royaltyMargin", "totalBeforeGst", "gst",
     "totalAfterGst", "grandTotal", "saleCost"}

\* new Shipment(obj): the schema's paths only, its defaults, its setters
NewShipment(obj) ==
    LET defaults == [baseAmount |-> 0, royaltyMargin |-> 0, gst |-> 0, saleCost |-> 0,
                     paymentStatus |-> "Pending", shipmentStatus |-> "Created"]
        given == [f \in (DOMAIN obj) \cap ShipmentPaths |->
                     IF f \in TrimmedPaths THEN Trim(obj[f]) ELSE obj[f]]
    IN  Assign(defaults, given)

\* required: a missing value, or an empty string, is refused
RequiredFails(doc, f) ==
    \/ ~Has(doc, f)
    \/ f \in SequencePaths /\ doc[f] = <<>>
    \/ f \in {"courierPartner", "city", "state", "createdBy", "updatedBy"} /\ doc[f] = ""

\* min: [0, ...]
NumberMin_Positive(value, min) == value > min

NumberMin(value, min) == value >= min

\* doc.validate(): the paths that fail a validator
InvalidPaths(doc) ==
    {f \in RequiredPaths : RequiredFails(doc, f)}
    \cup {f \in MinZeroPaths : Has(doc, f) /\ ~NumberMin(doc[f], 0)}
    \cup {f \in {"pinCode"} : Has(doc, f) /\ ~validatePincode(doc[f])}
    \cup {f \in {"pickupCustomerMoNo", "customerMoNo"} :
              Has(doc, f) /\ doc[f] # <<>> /\ ~validatePhone(doc[f])}
    \cup {f \in {"awb"} : Has(doc, f) /\ Len(doc[f]) > 50}
    \cup {f \in {"paymentStatus"} : doc[f] \notin PaymentStatus}
    \cup {f \in {"shipmentStatus"} : doc[f] \notin ShipmentStatus}

\* (variant: totals a document already carries are kept)
PreSave_KeepsGivenTotals(doc) ==
    LET totalBeforeGst == doc.baseAmount + doc.royaltyMargin
        totalAfterGst == totalBeforeGst + doc.gst
    IN  Assign([totalBeforeGst |-> totalBeforeGst, totalAfterGst |-> totalAfterGst,
                grandTotal |-> totalAfterGst], doc)

\* ShipmentSchema.pre('save'): the derived totals
PreSave(doc) ==
    LET totalBeforeGst == doc.baseAmount + doc.royaltyMargin
        totalAfterGst == totalBeforeGst + doc.gst
    IN  Assign(doc, [totalBeforeGst |-> totalBeforeGst, totalAfterGst |-> totalAfterGst,
                     grandTotal |-> totalAfterGst])

\* (variant: the index is declared without unique)
AwbIndexAllows_NotUnique(coll, doc) == TRUE

\* the unique index {userId: 1, awb: 1}
AwbIndexAllows(coll, doc) ==
    \A d \in coll : ~(d.userId = doc.userId /\ d.awb = doc.awb)

ValidationError(paths) == [name |-> "ValidationError", paths |-> paths]
DuplicateKeyError == [name |-> "E11000", paths |-> {}]

\* new Shipment(obj).save()
SaveShipment(coll, obj) ==
    LET doc == NewShipment(obj)
        bad == InvalidPaths(doc)
    IN  IF bad # {}
        THEN [ok |-> FALSE, error |-> ValidationError(bad), coll |-> coll]
        ELSE IF ~AwbIndexAllows(coll, doc)
        THEN [ok |-> FALSE, error |-> DuplicateKeyError, coll |-> coll]
        ELSE [ok |-> TRUE, error |-> ValidationError({}), coll |-> coll \cup {PreSave(doc)},
              doc |-> PreSave(doc)]

(***************************************************************************)
(* middleware/validation: the Joi schema of an interactive shipment write   *)
(***************************************************************************)
JoiRequired ==
    {"date", "pickupCustomerName", "pickupCustomerMoNo", "awb", "courierPartner",
     "weight", "pinCode", "city", "state", "baseAmount", "royaltyMargin", "gst",
     "saleCost", "customerName", "customerMoNo"}

JoiKeys ==
    JoiRequired \cup {"pickupRef", "awbImageUrl", "weightImageUrl", "bookingCode",
                      "stickerUrl", "paymentStatus", "shipmentStatus",
                      "additionalFields", "createdBy", "updatedBy", "userId"}

JoiNumbers == {"weight", "baseAmount", "royaltyMargin", "gst", "saleCost"}

\* parseFloat(value) || 0
ImportNumber(value) ==
    LET parsed == ParseFloat(value)
    IN  IF parsed.nan \/ parsed.val = 0 THEN 0 ELSE parsed.val

\* Joi.number() with convert: the whole string must be a number
JoiNumber_Lenient(value) == [ok |-> TRUE, value |-> ImportNumber(value)]

JoiNumber(value) ==
    LET start == NumberStart(value)
        n == DigitRun(value, start)
        rest == start + n
    IN  IF n > 0 /\ rest + Blanks(value, rest) = Len(value) + 1
        THEN [ok |-> TRUE, value |-> ParseFloat(value).val]
        ELSE [ok |-> FALSE, value |-> 0]

\* shipmentSchema.validate(body, {abortEarly: false, stripUnknown: true}):
\* the keys that fail, and the converted value
JoiErrors(body) ==
    {f \in JoiRequired : ~Has(body, f)}
    \cup {f \in JoiNumbers : Has(body, f) /\
              (~JoiNumber(body[f]).ok \/ JoiNumber(body[f]).value < 0)}
    \cup {f \in {"pinCode"} : Has(body, f) /\ ~validatePincode(body[f])}
    \cup {f \in {"pickupCustomerMoNo", "customerMoNo"} :
              Has(body, f) /\ ~validatePhone(body[f])}
    \cup {f \in {"awb"} : Has(body, f) /\ (Trim(body[f]) = <<>> \/ Len(Trim(body[f])) > 50)}
    \cup {f \in {"date", "pickupCustomerName", "courierPartner", "city", "state",
                 "customerName"} : Has(body, f) /\ body[f] = ""}
    \cup {f \in {"paymentStatus"} : Has(body, f) /\ body[f] \notin PaymentStatus}
    \cup {f \in {"shipmentStatus"} : Has(body, f) /\ body[f] \notin ShipmentStatus}

JoiValue(body) ==
    LET converted == [f \in (DOMAIN body) \cap JoiKeys |->
                         IF f \in JoiNumbers THEN JoiNumber(body[f]).value
                         ELSE IF f = "awb" THEN Trim(body[f])
                         ELSE body[f]]
    IN  Assign([paymentStatus |-> "Pending", shipmentStatus |-> "Created"], converted)

(***************************************************************************)
(* routes/import and routes/shipments                                      *)
(***************************************************************************)
\* what authenticate leaves in req.user
Users == {[id |-> "u1", email |-> "u1@example.com"]}

ServerSet(user) == [userId |-> user.id, createdBy |-> user.email, updatedBy |-> user.email]

\* fileFilter of the upload
AllowedTypes ==
    {"text/csv", "application/vnd.ms-excel",
     "application/vnd.openxmlformats-officedocument.spreadsheetml.sheet"}

FileFilter(file) == file.mimetype \in AllowedTypes \/ file.ext = ".csv"

\* path.extname(filename)
ExtName(filename) == filename.ext

\* the rows the parsers yield for a file: csv-parser for .csv, sheet_to_json for
\* .xlsx and .xls, none for any other extension
Parsed(ext) == ext \in {".csv", ".xlsx", ".xls"}

ReadData(filename, content) == IF Parsed(ExtName(filename)) THEN content ELSE <<>>

Unlink(files, filename) == [f \in (DOMAIN files) \ {filename} |-> files[f]]

NumericFields == {"baseAmount", "royaltyMargin", "gst", "saleCost", "weight"}

\* new Date(value)
NewDate(value) == [date |-> value]

\* the text of a cell for the attributes that hold their text whole: the ids
\* and e-mail addresses of the accounts
TextOf(value) ==
    CASE value = <<"u", "1">> -> "u1"
      [] value = <<"u", "2">> -> "u2"
      [] value = <<"u", "2", "@">> -> "u2@example.com"
      [] OTHER -> "text"

\* the type conversion of one mapped cell
Convert(shipmentField, value) ==
    IF shipmentField \in NumericFields THEN ImportNumber(value)
    ELSE IF shipmentField = "date" THEN NewDate(value)
    ELSE IF shipmentField \in DOMAIN ServerSet(CHOOSE u \in Users : TRUE) THEN TextOf(value)
    ELSE value

\* Object.entries(mappings).forEach(...) over one row; mappings is the sequence
\* of [csvColumn, shipmentField] entries
RECURSIVE ApplyMappings(_, _, _)
ApplyMappings(shipmentData, row, mappings) ==
    IF mappings = <<>> THEN shipmentData
    ELSE LET csvColumn == Head(mappings)[1]
             shipmentField == Head(mappings)[2]
             next == IF Has(row, csvColumn) /\ row[csvColumn] # <<>>
                     THEN Assign(shipmentData,
                                 [f \in {shipmentField} |-> Convert(shipmentField, row[csvColumn])])
                     ELSE shipmentData
         IN  ApplyMappings(next, row, Tail(mappings))

\* data.map(...): the candidate record of every row
Transform(data, mappings, defaultValues, user) ==
    [i \in 1..Len(data) |->
        ApplyMappings(Assign(defaultValues, ServerSet(user)), data[i], mappings)]

NoResults == [successful |-> 0, failed |-> 0, errors |-> <<>>]

\* the row loop: transformedData[i - 1] of the code is transformedData[i] here
RECURSIVE SaveRows_AbortOnFailure(_, _, _, _)
SaveRows_AbortOnFailure(coll, transformedData, i, results) ==
    IF i > Len(transformedData) THEN [coll |-> coll, results |-> results]
    ELSE LET s == SaveShipment(coll, transformedData[i])
         IN  IF s.ok
             THEN SaveRows_AbortOnFailure(s.coll, transformedData, i + 1,
                      [results EXCEPT !.successful = @ + 1])
             ELSE [coll |-> coll,
                   results |-> [results EXCEPT
                       !.failed = @ + 1,
                       !.errors = Append(@, [row |-> i, data |-> transformedData[i],
                                             error |-> s.error])]]

RECURSIVE SaveRows(_, _, _, _)
SaveRows(coll, transformedData, i, results) ==
    IF i > Len(transformedData) THEN [coll |-> coll, results |-> results]
    ELSE LET s == SaveShipment(coll, transformedData[i])
         IN  IF s.ok
             THEN SaveRows(s.coll, transformedData, i + 1,
                           [results EXCEPT !.successful = @ + 1])
             ELSE SaveRows(coll, transformedData, i + 1,
                           [results EXCEPT
                               !.failed = @ + 1,
                               !.errors = Append(@, [row |-> i, data |-> transformedData[i],
                                                     error |-> s.error])])

\* the try block of POST /execute from the parse on; readError is the parser
\* throwing on the staged file
ExecuteOutcome_KeepsFileOnSuccess(files, coll, user, body, readError) ==
    LET defaultValues == IF Has(body, "defaultValues") THEN body.defaultValues ELSE <<>>
        data == ReadData(body.filename, files[body.filename])
        saved == SaveRows(coll, Transform(data, body.mappings, defaultValues, user),
                          1, NoResults)
    IN  IF readError
        THEN [status |-> 500, error |-> "Error executing import", results |-> NoResults,
              coll |-> coll, files |-> Unlink(files, body.filename)]
        ELSE [status |-> 200, error |-> "", results |-> saved.results,
              coll |-> saved.coll, files |-> files]

ExecuteOutcome_KeepsFileOnError(files, coll, user, body, readError) ==
    LET defaultValues == IF Has(body, "defaultValues") THEN body.defaultValues ELSE <<>>
        data == ReadData(body.filename, files[body.filename])
        saved == SaveRows(coll, Transform(data, body.mappings, defaultValues, user),
                          1, NoResults)
    IN  IF readError
        THEN [status |-> 500, error |-> "Error executing import", results |-> NoResults,
              coll |-> coll, files |-> files]
        ELSE [status |-> 200, error |-> "", results |-> saved.results,
              coll |-> saved.coll, files |-> Unlink(files, body.filename)]

ExecuteOutcome(files, coll, user, body, readError) ==
    LET defaultValues == IF Has(body, "defaultValues") THEN body.defaultValues ELSE <<>>
        data == ReadData(body.filename, files[body.filename])
        saved == SaveRows(coll, Transform(data, body.mappings, defaultValues, user),
                          1, NoResults)
    IN  IF readError
        THEN [status |-> 500, error |-> "Error executing import", results |-> NoResults,
              coll |-> coll, files |-> Unlink(files, body.filename)]
        ELSE [status |-> 200, error |-> "", results |-> saved.results,
              coll |-> saved.coll, files |-> Unlink(files, body.filename)]

\* the characters of the column headers of the uploads
Spelling(header) ==
    CASE header = "AWB" ->
          <<"A", "W", "B">>
      [] header = "Weight" ->
          <<"W", "e", "i", "g", "h", "t">>
      [] header = "Customer Mobile No" ->
          <<"C", "u", "s", "t", "o", "m", "e", "r", " ", "M", "o", "b", "i", "l", "e", " ", "N", "o">>
      [] header = "Pin-Code" ->
          <<"P", "i", "n", "-", "C", "o", "d", "e">>
      [] header = "Shipping Date" ->
          <<"S", "h", "i", "p", "p", "i", "n", "g", " ", "D", "a", "t", "e">>
      [] header = "COURIER" ->
          <<"C", "O", "U", "R", "I", "E", "R">>
      [] header = "Courier City" ->
          <<"C", "o", "u", "r", "i", "e", "r", " ", "C", "i", "t", "y">>
      [] header = "Remarks" ->
          <<"R", "e", "m", "a", "r", "k", "s">>
      [] header = "Owner" ->
          <<"O", "w", "n", "e", "r">>
      [] header = "Mail" ->
          <<"M", "a", "i", "l">>

UpperCase == <<"A", "B", "C", "D", "E", "F", "G", "H", "I", "J", "K", "L", "M", "N", "O", "P", "Q", "R", "S", "T", "U", "V", "W", "X", "Y", "Z">>
LowerCase == <<"a", "b", "c", "d", "e", "f", "g", "h", "i", "j", "k", "l", "m", "n", "o", "p", "q", "r", "s", "t", "u", "v", "w", "x", "y", "z">>

\* s.toLowerCase()
ToLowerCase(s) ==
    [i \in 1..Len(s) |->
        IF \E j \in DOMAIN UpperCase : UpperCase[j] = s[i]
        THEN LowerCase[CHOOSE j \in DOMAIN UpperCase : UpperCase[j] = s[i]]
        ELSE s[i]]

AlphaNumeric(c) == c \in Digits \/ \E j \in DOMAIN LowerCase : LowerCase[j] = c

\* (variant: the header is matched as it is spelled, capitals kept)
LowerHeader_CaseSensitive(header) ==
    SelectSeq(Spelling(header),
              LAMBDA c : AlphaNumeric(c) \/ \E j \in DOMAIN UpperCase : UpperCase[j] = c)

\* header.toLowerCase().replace(/[^a-z0-9]/g, '')
LowerHeader(header) == SelectSeq(ToLowerCase(Spelling(header)), AlphaNumeric)

\* the if / else-if chain over one header: the first fragment rule that the
\* header meets decides the suggestion
SuggestedMapping(header) ==
    LET lowerHeader == LowerHeader(header)
        inc(fragment) == Includes(lowerHeader, fragment)
    IN
        IF inc(<<"d", "a", "t", "e">>)
            THEN [found |-> TRUE, field |-> "date"]
        ELSE IF inc(<<"a", "w", "b">>)
            THEN [found |-> TRUE, field |-> "awb"]
        ELSE IF inc(<<"w", "e", "i", "g", "h", "t">>)
            THEN [found |-> TRUE, field |-> "weight"]
        ELSE IF inc(<<"p", "i", "n", "c", "o", "d", "e">>) \/ inc(<<"p", "i", "n">>)
            THEN [found |-> TRUE, field |-> "pinCode"]
        ELSE IF inc(<<"c", "i", "t", "y">>)
            THEN [found |-> TRUE, field |-> "city"]
        ELSE IF inc(<<"s", "t", "a", "t", "e">>)
            THEN [found |-> TRUE, field |-> "state"]
        ELSE IF inc(<<"c", "u", "s", "t", "o", "m", "e", "r">>) /\ inc(<<"n", "a", "m", "e">>)
            THEN [found |-> TRUE, field |-> "customerName"]
        ELSE IF inc(<<"c", "u", "s", "t", "o", "m", "e", "r">>) /\ (inc(<<"m", "o", "b", "i", "l", "e">>) \/ inc(<<"p", "h", "o", "n", "e">>))
            THEN [found |-> TRUE, field |-> "customerMoNo"]
        ELSE IF inc(<<"p", "i", "c", "k", "u", "p">>) /\ inc(<<"n", "a", "m", "e">>)
            THEN [found |-> TRUE, field |-> "pickupCustomerName"]
        ELSE IF inc(<<"p", "i", "c", "k", "u", "p">>) /\ (inc(<<"m", "o", "b", "i", "l", "e">>) \/ inc(<<"p", "h", "o", "n", "e">>))
            THEN [found |-> TRUE, field |-> "pickupCustomerMoNo"]
        ELSE IF inc(<<"c", "o", "u", "r", "i", "e", "r">>)
            THEN [found |-> TRUE, field |-> "courierPartner"]
        ELSE IF inc(<<"b", "a", "s", "e">>) /\ inc(<<"a", "m", "o", "u", "n", "t">>)
            THEN [found |-> TRUE, field |-> "baseAmount"]
        ELSE IF inc(<<"r", "o", "y", "a", "l", "t", "y">>)
            THEN [found |-> TRUE, field |-> "royaltyMargin"]
        ELSE IF inc(<<"g", "s", "t">>)
            THEN [found |-> TRUE, field |-> "gst"]
        ELSE IF inc(<<"s", "a", "l", "e">>)
            THEN [found |-> TRUE, field |-> "saleCost"]
        ELSE IF inc(<<"p", "a", "y", "m", "e", "n", "t">>) /\ inc(<<"s", "t", "a", "t", "u", "s">>)
            THEN [found |-> TRUE, field |-> "paymentStatus"]
        ELSE IF inc(<<"s", "h", "i", "p", "m", "e", "n", "t">>) /\ inc(<<"s", "t", "a", "t", "u", "s">>)
            THEN [found |-> TRUE, field |-> "shipmentStatus"]
        ELSE [found |-> FALSE]

\* headers.forEach(...): suggestedMappings holds an entry for the headers that
\* met a rule and none for the others
SuggestedMappings(headers) ==
    [h \in {x \in headers : SuggestedMapping(x).found} |-> SuggestedMapping(h).field]

(***************************************************************************)
(* Requests of the import pipeline and of the interactive shipment write   *)
(***************************************************************************)
A1 == <<"a", "1">>
A2 == <<"a", "2">>
A3 == <<"a", "3">>
Cell_5 == <<"5">>
Cell_abc == <<"a", "b", "c">>
Cell_minus5 == <<"-", "5">>
Cell_0 == <<"0">>
Pin == <<"1", "1", "0", "0", "0", "1">>
Phone == <<"9", "8", "7", "6", "5", "4", "3", "2", "1", "0">>

\* the rows a file is made of, by column header
Rows ==
    { [AWB |-> A1, Weight |-> Cell_5],
      [AWB |-> A2, Weight |-> Cell_abc],
      [AWB |-> A3, Weight |-> Cell_5],
      [AWB |-> <<>>, Weight |-> Cell_minus5] }

Contents == UNION {[1..n -> Rows] : n \in 1..MaxRows}

\* uploads: a file of rows under a .csv name, and the same rows under a name
\* that no parser is chosen for, declared as CSV or as plain text
Uploads ==
    {[ext |-> ".csv", mimetype |-> "text/csv", rows |-> c] : c \in Contents}
    \cup {[ext |-> ".txt", mimetype |-> m, rows |-> <<[AWB |-> A1, Weight |-> Cell_5]>>] :
              m \in {"text/csv", "text/plain"}}

NoUpload == [none |-> TRUE]

\* an upload the parser throws on
UnreadableUploads ==
    {[ext |-> ".csv", mimetype |-> "text/csv", rows |-> <<[AWB |-> A1, Weight |-> Cell_5]>>]}

\* the unique suffixes multer draws for the names of staged files
Suffixes == {"1"}

Filenames == {[suffix |-> s, ext |-> e] : s \in Suffixes, e \in {".csv", ".txt"}}

MapWeight == << <<"AWB", "awb">>, <<"Weight", "weight">> >>
Mappings == {MapWeight}

Defaults ==
    [date |-> "2024-01-15", courierPartner |-> "BlueDart", pinCode |-> Pin,
     city |-> "Delhi", state |-> "Delhi", weight |-> 1]

ExecuteBodies ==
    {[filename |-> f, mappings |-> m, defaultValues |-> Defaults] :
         f \in Filenames, m \in Mappings}
    \cup {[filename |-> f, mappings |-> MapWeight] : f \in Filenames}
    \cup {[filename |-> f] : f \in Filenames}

ShipmentBody ==
    [date |-> "2024-01-15", pickupCustomerName |-> "Asha", pickupCustomerMoNo |-> Phone,
     awb |-> A1, courierPartner |-> "BlueDart", weight |-> Cell_5, pinCode |-> Pin,
     city |-> "Delhi", state |-> "Delhi", baseAmount |-> Cell_5, royaltyMargin |-> Cell_0,
     gst |-> Cell_0, saleCost |-> Cell_0, customerName |-> "Ravi", customerMoNo |-> Phone]

ShipmentBodies ==
    { ShipmentBody,
      Assign(ShipmentBody, [weight |-> Cell_abc]),
      Without(ShipmentBody, "awb") }

(***************************************************************************)
(* The import pipeline and the interactive shipment write, one step per    *)
(* request                                                                 *)
(***************************************************************************)
\* data.length > 0 ? Object.keys(data[0]) : []
Headers(data) == IF Len(data) > 0 THEN DOMAIN data[1] ELSE {}

\* POST /api/import/preview: multer stores the upload under a fresh name, the
\* handler parses it
Preview(upload, readError) ==
    /\ request' = [op |-> "preview"]
    /\ UNCHANGED <<fieldsConfigs, inflight, shipments>>
    /\ IF ~Has(upload, "rows")
       THEN /\ ~readError
            /\ response' = Reply(400, "No file uploaded")
            /\ tempFiles' = tempFiles
       ELSE IF ~FileFilter(upload)
       THEN /\ ~readError
            /\ response' = Reply(400, "Only CSV and XLSX files are allowed")
            /\ tempFiles' = tempFiles
       ELSE \E s \in Suffixes :
            LET filename == [suffix |-> s, ext |-> upload.ext]
                data == ReadData(filename, upload.rows)
            IN  /\ \A f \in DOMAIN tempFiles : f.suffix # s
                /\ readError => Parsed(upload.ext)
                /\ IF readError
                   THEN /\ response' = Reply(500, "Error processing file")
                        /\ tempFiles' = tempFiles
                   ELSE /\ response' = [status |-> 200, error |-> "", success |-> TRUE,
                                        data |-> [filename |-> filename,
                                                  totalRows |-> Len(data),
                                                  headers |-> Headers(data),
                                                  suggestedMappings |->
                                                      SuggestedMappings(Headers(data))]]
                        /\ tempFiles' = [f \in (DOMAIN tempFiles) \cup {filename} |->
                                            IF f = filename THEN upload.rows ELSE tempFiles[f]]

\* POST /api/import/execute
Execute(user, body, readError) ==
    /\ request' = [op |-> "execute", body |-> body]
    /\ UNCHANGED <<fieldsConfigs, inflight>>
    /\ IF ~Has(body, "filename") \/ ~Has(body, "mappings")
       THEN /\ ~readError
            /\ response' = Reply(400, "Filename and mappings are required")
            /\ UNCHANGED <<tempFiles, shipments>>
       ELSE IF body.filename \notin DOMAIN tempFiles
       THEN /\ ~readError
            /\ response' = Reply(404, "File not found")
            /\ UNCHANGED <<tempFiles, shipments>>
       ELSE LET o == ExecuteOutcome(tempFiles, shipments, user, body, readError)
            IN  /\ readError => Parsed(ExtName(body.filename))
                /\ response' = [status |-> o.status, error |-> o.error,
                                success |-> o.status = 200, data |-> o.results]
                /\ tempFiles' = o.files
                /\ shipments' = o.coll

\* POST /api/shipments behind validateShipment
CreateShipment(user, body) ==
    LET errors == JoiErrors(body)
        s == SaveShipment(shipments, Assign(JoiValue(body), ServerSet(user)))
    IN  /\ request' = [op |-> "createShipment", body |-> body]
        /\ UNCHANGED <<fieldsConfigs, inflight, tempFiles>>
        /\ IF errors # {}
           THEN /\ response' = [status |-> 400, error |-> "Validation error",
                                paths |-> errors]
                /\ shipments' = shipments
           ELSE IF s.ok
           THEN /\ response' = [status |-> 201, error |-> "", paths |-> {}]
                /\ shipments' = s.coll
           ELSE /\ response' = [status |-> 500, error |-> s.error.name,
                                paths |-> s.error.paths]
                /\ shipments' = shipments

NextImport ==
    \/ \E upload \in Uploads \cup {NoUpload} : Preview(upload, FALSE)
    \/ \E upload \in UnreadableUploads : Preview(upload, TRUE)
    \/ \E user \in Users, body \in ExecuteBodies, readError \in BOOLEAN :
           Execute(user, body, readError)
    \/ \E user \in Users, body \in ShipmentBodies : CreateShipment(user, body)

SpecImport == Init /\ [][NextImport]_vars

(***************************************************************************)
(* Preview over files of other column headers                              *)
(***************************************************************************)
ColumnHeaders ==
    {"AWB",
     "Weight", "Customer Mobile No",
     "Pin-Code",
     "Shipping Date",
     "COURIER",
     "Courier City",
     "Remarks"}

\* files of one row under one to three of the column headers
HeaderUploads ==
    {[ext |-> ".csv", mimetype |-> "text/csv", rows |-> <<[h \in hs |-> cell]>>] :
         hs \in {s \in SUBSET ColumnHeaders : Cardinality(s) \in 1..3},
         cell \in {Cell_5, Cell_abc}}

NextPreview ==
    \/ \E upload \in HeaderUploads : Preview(upload, FALSE)
    \/ \E user \in Users :
           Execute(user, [filename |-> [suffix |-> "1", ext |-> ".csv"],
                          mappings |-> MapWeight], FALSE)

SpecPreview == Init /\ [][NextPreview]_vars

(***************************************************************************)
(* routes/shipments: the interactive reads and writes of the collection    *)
(***************************************************************************)
\* the accounts that authenticate lets through
Accounts == Users \cup {[id |-> "u2", email |-> "u2@example.com"]}

\* the :id of a request designates at most one stored document; a request is
\* modelled with the document its :id designates, NoShipment standing for an
\* id that designates none
NoShipment == [userId |-> "none"]

\* Shipment.findOne({_id: id, userId: req.user.id})
FindOwn(coll, doc, user) == {d \in coll : d = doc /\ d.userId = user.id}

\* shipmentUpdateSchema: the schema of the create with its required keys made
\* optional; the defaults of paymentStatus and shipmentStatus stay
JoiUpdateErrors(body) == JoiErrors(body) \ {f \in JoiRequired : ~Has(body, f)}

\* Object.assign(shipment, {...req.body, updatedBy}) and shipment.save()
UpdateShipmentOutcome(coll, doc, user, body) ==
    LET assigned == Assign(doc, Assign(JoiValue(body), [updatedBy |-> user.email]))
        bad == InvalidPaths(assigned)
        rest == coll \ {doc}
    IN  IF bad # {}
        THEN [status |-> 500, error |-> ValidationError(bad), coll |-> coll]
        ELSE IF ~AwbIndexAllows(rest, assigned)
        THEN [status |-> 500, error |-> DuplicateKeyError, coll |-> coll]
        ELSE [status |-> 200, error |-> ValidationError({}),
              coll |-> rest \cup {PreSave(assigned)}]

\* the filter of GET / and of the exports: the user's own documents, narrowed
\* by the status given in the query
Find(coll, user, query) ==
    {d \in coll : /\ d.userId = user.id
                  /\ Has(query, "paymentStatus") => d.paymentStatus = query.paymentStatus}

\* {$match: {userId: userId}} of the statistics: a pipeline is handed to the
\* database as written, so whether the string of req.user.id equals a stored
\* ObjectId is the database's comparison; cast tells which
Match(coll, userId, cast) == IF cast THEN {d \in coll : d.userId = userId} ELSE {}

RECURSIVE Sum(_, _)
Sum(docs, f) ==
    IF docs = {} THEN 0
    ELSE LET d == CHOOSE x \in docs : TRUE IN d[f] + Sum(docs \ {d}, f)

\* the $group stages of the summary
Summary(docs) ==
    [totalShipments |-> Cardinality(docs), totalAmount |-> Sum(docs, "saleCost"),
     totalWeight |-> Sum(docs, "weight"),
     statusBreakdown |-> {<<s, Cardinality({d \in docs : d.shipmentStatus = s})>> :
                              s \in {d.shipmentStatus : d \in docs}}]

Queries == {<<>>, [paymentStatus |-> "Paid"]}

ShipmentCreates ==
    { ShipmentBody,
      Assign(ShipmentBody, [userId |-> "u2", totalBeforeGst |-> 0, grandTotal |-> 0]),
      Without(ShipmentBody, "awb") }

ShipmentUpdates ==
    { [gst |-> Cell_5, paymentStatus |-> "Paid"],
      [userId |-> "u2"],
      [weight |-> Cell_abc],
      [gst |-> Cell_0] }

\* the one file staged for the import of this part, and the request that
\* executes it with totals among its default values
OneRowUpload == [ext |-> ".csv", mimetype |-> "text/csv",
                 rows |-> <<[AWB |-> A1, Weight |-> Cell_5]>>]

ExecuteWithTotals ==
    [filename |-> [suffix |-> "1", ext |-> ".csv"], mappings |-> MapWeight,
     defaultValues |-> Assign(Defaults, [gst |-> 5, totalBeforeGst |-> 9, grandTotal |-> 9])]

\* GET /api/shipments
ListShipments(user, query) ==
    /\ request' = [op |-> "list", user |-> user.id]
    /\ response' = [status |-> 200, error |-> "", data |-> Find(shipments, user, query)]
    /\ UNCHANGED <<fieldsConfigs, inflight, tempFiles, shipments>>

\* GET /api/shipments/:id
GetShipment(user, doc) ==
    /\ request' = [op |-> "get", user |-> user.id]
    /\ response' = IF FindOwn(shipments, doc, user) = {}
                   THEN Reply(404, "Shipment not found")
                   ELSE [status |-> 200, error |-> "", data |-> FindOwn(shipments, doc, user)]
    /\ UNCHANGED <<fieldsConfigs, inflight, tempFiles, shipments>>

\* PUT /api/shipments/:id behind validateShipmentUpdate
UpdateShipment(user, doc, body) ==
    LET errors == JoiUpdateErrors(body)
        o == UpdateShipmentOutcome(shipments, doc, user, body)
    IN  /\ request' = [op |-> "updateShipment", user |-> user.id, body |-> body]
        /\ UNCHANGED <<fieldsConfigs, inflight, tempFiles>>
        /\ IF errors # {}
           THEN /\ response' = [status |-> 400, error |-> "Validation error",
                                paths |-> errors]
                /\ shipments' = shipments
           ELSE IF FindOwn(shipments, doc, user) = {}
           THEN /\ response' = Reply(404, "Shipment not found")
                /\ shipments' = shipments
           ELSE /\ response' = [status |-> o.status,
                                error |-> IF o.status = 200 THEN "" ELSE o.error.name,
                                paths |-> o.error.paths]
                /\ shipments' = o.coll

\* DELETE /api/shipments/:id
DeleteShipment(user, doc) ==
    /\ request' = [op |-> "deleteShipment", user |-> user.id]
    /\ UNCHANGED <<fieldsConfigs, inflight, tempFiles>>
    /\ IF FindOwn(shipments, doc, user) = {}
       THEN /\ response' = Reply(404, "Shipment not found")
            /\ shipments' = shipments
       ELSE /\ response' = Reply(200, "")
            /\ shipments' = shipments \ {doc}

\* GET /api/shipments/stats/summary
Stats(user, cast) ==
    /\ request' = [op |-> "stats", user |-> user.id]
    /\ response' = [status |-> 200, error |-> "",
                    data |-> Summary(Match(shipments, user.id, cast))]
    /\ UNCHANGED <<fieldsConfigs, inflight, tempFiles, shipments>>

\* GET /api/shipments/export/csv and /export/xlsx
Export(user, query, format) ==
    /\ request' = [op |-> "export", user |-> user.id, format |-> format]
    /\ response' = [status |-> 200, error |-> "", data |-> Find(shipments, user, query)]
    /\ UNCHANGED <<fieldsConfigs, inflight, tempFiles, shipments>>

NextShipments ==
    \/ \E user \in Accounts, body \in ShipmentCreates : CreateShipment(user, body)
    \/ \E user \in Accounts, doc \in shipments \cup {NoShipment}, body \in ShipmentUpdates :
           UpdateShipment(user, doc, body)
    \/ \E user \in Accounts, doc \in shipments \cup {NoShipment} : DeleteShipment(user, doc)
    \/ \E user \in Accounts, query \in Queries : ListShipments(user, query)
    \/ \E user \in Accounts, doc \in shipments \cup {NoShipment} : GetShipment(user, doc)
    \/ \E user \in Accounts, cast \in BOOLEAN : Stats(user, cast)
    \/ \E user \in Accounts, query \in Queries, format \in {"csv", "xlsx"} :
           Export(user, query, format)
    \/ Preview(OneRowUpload, FALSE)
    \/ \E user \in Accounts : Execute(user, ExecuteWithTotals, FALSE)

SpecShipments == Init /\ [][NextShipments]_vars

(***************************************************************************)
(* The writes of the collection over two AWB numbers and two accounts      *)
(***************************************************************************)
AwbCreates == {ShipmentBody, Assign(ShipmentBody, [awb |-> A2])}

AwbUpdates == {[awb |-> A1], [awb |-> A2]}

ExecuteWithDefaults ==
    [filename |-> [suffix |-> "1", ext |-> ".csv"], mappings |-> MapWeight,
     defaultValues |-> Defaults]

NextAwb ==
    \/ \E user \in Accounts, body \in AwbCreates : CreateShipment(user, body)
    \/ \E user \in Accounts, doc \in shipments, body \in AwbUpdates :
           UpdateShipment(user, doc, body)
    \/ Preview(OneRowUpload, FALSE)
    \/ \E user \in Accounts : Execute(user, ExecuteWithDefaults, FALSE)

SpecAwb == Init /\ [][NextAwb]_vars

(***************************************************************************)
(* Import Execute with mappings and default values that name the           *)
(* attributes the server sets                                              *)
(***************************************************************************)
\* files of one or two rows that carry an account's id and e-mail address in
\* columns of their own
OwnerUploads ==
    {[ext |-> ".csv", mimetype |-> "text/csv", rows |-> rows] :
        rows \in UNION {[1..n -> {[AWB |-> awb, Weight |-> Cell_5, Owner |-> <<"u", "2">>,
                                   Mail |-> <<"u", "2", "@">>] : awb \in {A1, A2}}] :
                            n \in 1..2}}

MapOwner == << <<"AWB", "awb">>, <<"Owner", "userId">> >>
MapAuthor == << <<"AWB", "awb">>, <<"Mail", "createdBy">>, <<"Mail", "updatedBy">> >>

OwnerBodies ==
    {[filename |-> [suffix |-> "1", ext |-> ".csv"], mappings |-> m, defaultValues |-> d] :
        m \in {MapWeight, MapOwner, MapAuthor},
        d \in {Defaults,
               Assign(Defaults, [userId |-> "u2", createdBy |-> "u2@example.com",
                                 updatedBy |-> "u2@example.com"])}}

NextOwner ==
    \/ \E upload \in OwnerUploads : Preview(upload, FALSE)
    \/ \E user \in Accounts, body \in OwnerBodies : Execute(user, body, FALSE)

SpecOwner == Init /\ [][NextOwner]_vars

(***************************************************************************)
(* components/ShipmentForm: the form that the schema drives                *)
(*                                                                         *)
(* A value of the form is tagged with its JavaScript type.                 *)
(***************************************************************************)
Undefined == [t |-> "undefined"]
Str(s) == [t |-> "string", v |-> s]
Num(n) == [t |-> "number", v |-> n]
Bool(b) == [t |-> "boolean", v |-> b]

\* watch(name): the value the form holds under the name
Watch(values, name) == IF Has(values, name) THEN values[name] ELSE Undefined

\* a === b
StrictEquals(a, b) == a.t = b.t /\ (a.t = "undefined" \/ a.v = b.v)

\* the decimal digits of a natural number
RECURSIVE NatStringOf(_)
NatStringOf(n) ==
    LET digit == CHOOSE c \in Digits : DigitValue(c) = n % 10
    IN  IF n < 10 THEN <<digit>> ELSE Append(NatStringOf(n \div 10), digit)

\* String(x)
StringOf(x) ==
    CASE x.t = "string" -> x.v
      [] x.t = "number" -> IF x.v < 0 THEN <<"-">> \o NatStringOf(0 - x.v)
                           ELSE NatStringOf(x.v)
      [] x.t = "boolean" -> IF x.v THEN <<"t", "r", "u", "e">>
                            ELSE <<"f", "a", "l", "s", "e">>
      [] OTHER -> <<"u", "n", "d", "e", "f", "i", "n", "e", "d">>

\* Number(x): [nan, val]
ToNumber(x) ==
    CASE x.t = "number" -> [nan |-> FALSE, val |-> x.v]
      [] x.t = "boolean" -> [nan |-> FALSE, val |-> IF x.v THEN 1 ELSE 0]
      [] x.t = "string" ->
            IF Trim(x.v) = <<>> THEN [nan |-> FALSE, val |-> 0]
            ELSE IF JoiNumber(x.v).ok THEN [nan |-> FALSE, val |-> JoiNumber(x.v).value]
            ELSE [nan |-> TRUE, val |-> 0]
      [] OTHER -> [nan |-> TRUE, val |-> 0]

\* the callback of dependencies.every: one dependency against the form
DependencyHolds(dep, values) ==
    LET fieldValue == Watch(values, dep.field)
        a == ToNumber(fieldValue)
        b == ToNumber(dep.value)
    IN  CASE dep.operator = "equals" -> StrictEquals(fieldValue, dep.value)
          [] dep.operator = "not_equals" -> ~StrictEquals(fieldValue, dep.value)
          [] dep.operator = "contains" -> Includes(StringOf(fieldValue), StringOf(dep.value))
          [] dep.operator = "not_contains" ->
                 ~Includes(StringOf(fieldValue), StringOf(dep.value))
          [] dep.operator = "greater_than" -> ~a.nan /\ ~b.nan /\ a.val > b.val
          [] dep.operator = "less_than" -> ~a.nan /\ ~b.nan /\ a.val < b.val
          [] OTHER -> TRUE

\* (variant: Array.prototype.some in place of every)
RECURSIVE Every_Some(_, _)
Every_Some(dependencies, values) ==
    IF dependencies = <<>> THEN FALSE
    ELSE IF DependencyHolds(Head(dependencies), values) THEN TRUE
    ELSE Every_Some(Tail(dependencies), values)

\* dependencies.every(dep => ...): stops at the first dependency that fails
RECURSIVE Every(_, _)
Every(dependencies, values) ==
    IF dependencies = <<>> THEN TRUE
    ELSE IF ~DependencyHolds(Head(dependencies), values) THEN FALSE
    ELSE Every(Tail(dependencies), values)

\* the dependency check of renderField: shouldShow, true for a field without
\* dependencies
ShouldShow(fieldConfig, values) ==
    IF Has(fieldConfig, "dependencies") /\ Len(fieldConfig.dependencies) > 0
    THEN Every(fieldConfig.dependencies, values)
    ELSE TRUE

K_pinCode == <<"p", "i", "n", "C", "o", "d", "e">>
K_shipmentStatus ==
    <<"s", "h", "i", "p", "m", "e", "n", "t", "S", "t", "a", "t", "u", "s">>
K_weight == <<"w", "e", "i", "g", "h", "t">>
S_Delivered == <<"D", "e", "l", "i", "v", "e", "r", "e", "d">>
S_InTransit == <<"I", "n", "T", "r", "a", "n", "s", "i", "t">>

\* the types whose case of renderField registers the field a second time
\* without rules
RegisteredBare == {"checkbox", "boolean"}

\* the rules under which renderField leaves the field registered: commonProps
\* registers it with required for every type, and the checkbox and boolean
\* cases register it again without rules; merges tells whether the form
\* library keeps the earlier rules then
RegisteredRequired(fieldConfig, merges) ==
    IF fieldConfig.type \in RegisteredBare /\ fieldConfig.key # K_pinCode
    THEN fieldConfig.required /\ merges
    ELSE fieldConfig.required

Null == [null |-> TRUE]

\* renderField(fieldConfig): null for a field whose dependencies fail, else
\* the element, told by its key, its widget and its registered rule
RenderField(fieldConfig, values, merges) ==
    IF ~ShouldShow(fieldConfig, values) THEN Null
    ELSE [key |-> fieldConfig.key,
          widget |-> IF fieldConfig.key = K_pinCode THEN "PincodeInput"
                     ELSE fieldConfig.type,
          required |-> RegisteredRequired(fieldConfig, merges)]

\* groupedFields: the fields that are handed to renderField
NonFileFields(fieldsConfig) == {f \in fieldsConfig : f.type # "file" /\ f.visible}

\* the elements of the form
Rendered(fieldsConfig, values, merges) ==
    {RenderField(f, values, merges) : f \in NonFileFields(fieldsConfig)} \ {Null}

\* the required rule of the form library: what counts as no value
IsEmpty(value) ==
    \/ value.t \in {"undefined", "null"}
    \/ value.t = "string" /\ value.v = <<>>
    \/ value.t = "boolean" /\ ~value.v

\* handleSubmit: the keys of the rendered fields whose required rule fails
RequiredErrors(fieldsConfig, values, merges) ==
    {e.key : e \in {r \in Rendered(fieldsConfig, values, merges) :
                        r.required /\ IsEmpty(Watch(values, r.key))}}

Scenario4Dependency ==
    [field |-> K_shipmentStatus, value |-> Str(S_Delivered), operator |-> "equals"]

DependencyLists ==
    { <<>>,
      <<Scenario4Dependency>>,
      <<Scenario4Dependency,
        [field |-> K_weight, value |-> Num(5), operator |-> "greater_than"]>>,
      <<[field |-> K_weight, value |-> Num(5), operator |-> "less_than"],
        [field |-> K_shipmentStatus, value |-> Str(<<"D", "e", "l">>),
         operator |-> "contains"]>>,
      <<[field |-> K_shipmentStatus, value |-> Str(S_InTransit),
         operator |-> "not_equals"]>>,
      <<[field |-> K_shipmentStatus, value |-> Str(<<"T", "r">>),
         operator |-> "not_contains"],
        [field |-> K_weight, value |-> Num(5), operator |-> "between"]>> }

FormTypes == {"text", "number", "boolean", "checkbox", "radio", "range", "color", "file"}

\* the field definitions GET /visible/list may hand to the form
FormFields ==
    {[key |-> K_awb, label |-> "AWB Number", type |-> t, required |-> r, visible |-> v,
      dependencies |-> d] :
         t \in FormTypes, r \in BOOLEAN, v \in BOOLEAN, d \in DependencyLists}

\* the values a control of the form may be given
FormValues ==
    {<<K_awb, Str(<<>>)>>, <<K_awb, Str(A1)>>, <<K_awb, Bool(FALSE)>>,
     <<K_weight, Num(9)>>, <<K_weight, Str(<<"2">>)>>, <<K_weight, Str(<<>>)>>,
     <<K_weight, Str(Cell_abc)>>,
     <<K_shipmentStatus, Str(S_Delivered)>>, <<K_shipmentStatus, Str(S_InTransit)>>}

FormOpen == Has(request, "fieldConfig")

\* the form is mounted over a schema of one field and renders it
Open(fieldConfig, merges) ==
    /\ ~FormOpen
    /\ request' = [op |-> "render", fieldConfig |-> fieldConfig, values |-> <<>>]
    /\ response' = [status |-> 200, error |-> "",
                    elements |-> Rendered({fieldConfig}, <<>>, merges)]
    /\ UNCHANGED <<fieldsConfigs, inflight, tempFiles, shipments>>

\* a control changes its value and the form renders again
SetValue(name, value, merges) ==
    LET values == Assign(request.values, [k \in {name} |-> value])
    IN  /\ FormOpen
        /\ request' = [op |-> "render", fieldConfig |-> request.fieldConfig,
                       values |-> values]
        /\ response' = [status |-> 200, error |-> "",
                        elements |-> Rendered({request.fieldConfig}, values, merges)]
        /\ UNCHANGED <<fieldsConfigs, inflight, tempFiles, shipments>>

\* a submit of the form: handleSubmit validates the registered fields and
\* calls onSubmit when no rule fails
Submit(merges) ==
    LET errors == RequiredErrors({request.fieldConfig}, request.values, merges)
    IN  /\ FormOpen
        /\ request' = [op |-> "submit", fieldConfig |-> request.fieldConfig,
                       values |-> request.values]
        /\ response' = [status |-> IF errors = {} THEN 200 ELSE 0, error |-> "",
                        errors |-> errors, submitted |-> errors = {}]
        /\ UNCHANGED <<fieldsConfigs, inflight, tempFiles, shipments>>

NextForm ==
    \/ \E f \in FormFields, merges \in BOOLEAN : Open(f, merges)
    \/ \E v \in FormValues, merges \in BOOLEAN : SetValue(v[1], v[2], merges)
    \/ \E merges \in BOOLEAN : Submit(merges)

SpecForm == Init /\ [][NextForm]_vars

\* the body createMutation posts for the form of the awb field: the value of
\* the awb control when it holds one, beside the other attributes of a
\* complete shipment
PostedBody(values) ==
    IF Has(values, K_awb)
    THEN Assign(Without(ShipmentBody, "awb"), [awb |-> values[K_awb].v])
    ELSE Without(ShipmentBody, "awb")

\* onSubmit after handleSubmit found no error: POST /api/shipments with the
\* form data, behind validateShipment; the awb control holds text or nothing
Post(user) ==
    /\ request.op = "submit"
    /\ response.submitted
    /\ Has(request.values, K_awb) => request.values[K_awb].t = "string"
    /\ CreateShipment(user, PostedBody(request.values))

NextFormPost ==
    \/ NextForm
    \/ \E user \in Users : Post(user)

SpecFormPost == Init /\ [][NextFormPost]_vars

(***************************************************************************)
(* The schema store next to the shipment collection: the reads of the      *)
(* store and the removal of a definition                                   *)
(***************************************************************************)
\* the orders in which a query may return the documents of a set
Orderings(S) ==
    {f \in [1..Cardinality(S) -> S] : \A d \in S : \E i \in DOMAIN f : f[i] = d}

\* find(filter).sort({order: 1}): ascending by order; the database returns
\* documents of equal order in an order of its own
SortByOrder(docs) ==
    {f \in Orderings(docs) : \A i, j \in DOMAIN f : i < j => f[i].order <= f[j].order}

\* GET /api/fields-config
List ==
    /\ request' = [op |-> "list"]
    /\ \E data \in SortByOrder(fieldsConfigs) :
           response' = [status |-> 200, error |-> "", data |-> data]
    /\ UNCHANGED <<fieldsConfigs, inflight, tempFiles, shipments>>

\* GET /api/fields-config/visible/list
VisibleList ==
    /\ request' = [op |-> "visibleList"]
    /\ \E data \in SortByOrder({d \in fieldsConfigs : d.visible}) :
           response' = [status |-> 200, error |-> "", data |-> data]
    /\ UNCHANGED <<fieldsConfigs, inflight, tempFiles, shipments>>

NextStore ==
    \/ \E body \in CreateBodies : Create(body)
    \/ \E key \in ValidKeys : Delete(key)
    \/ \E fields \in Payloads(BulkItems) : BulkUpdate(fields)
    \/ Initialize
    \/ List
    \/ VisibleList
    \/ \E user \in Users : CreateShipment(user, ShipmentBody)

SpecStore == Init /\ [][NextStore]_vars

(***************************************************************************)
(* The import routes over the disk: besides the files staged under         *)
(* uploads/temp the disk holds the files of the installation, which a file *)
(* name with ".." segments reaches from uploads/temp                       *)
(***************************************************************************)
\* path.join(uploads, 'temp', filename) for filename = "../../package.json"
InstalledFile == [suffix |-> "../../package", ext |-> ".json"]

JobUploads == {u \in Uploads : Len(u.rows) <= 2}

JobBodies == ExecuteBodies \cup {[filename |-> InstalledFile, mappings |-> MapWeight]}

InitJobs ==
    /\ fieldsConfigs = {}
    /\ inflight = <<>>
    /\ request = [op |-> "none"]
    /\ response = Reply(0, "")
    /\ tempFiles = [f \in {InstalledFile} |-> <<>>]
    /\ shipments = {}

NextJobs ==
    \/ \E upload \in JobUploads \cup {NoUpload} : Preview(upload, FALSE)
    \/ \E upload \in UnreadableUploads : Preview(upload, TRUE)
    \/ \E user \in Users, body \in JobBodies, readError \in BOOLEAN :
           Execute(user, body, readError)

SpecJobs == InitJobs /\ [][NextJobs]_vars

(***************************************************************************)
(* Properties of the schema store                                          *)
(***************************************************************************)
EnumLike(type) == type \in {"enum", "radio", "checkbox"}

CarriesEnumValues(d) == EnumLike(d.type) => Len(d.enumValues) >= 1

Keys(coll) == {d.key : d \in coll}

WellFormedCreate(body) ==
    TruthyKey(body, "key") /\ Truthy(body, "label") /\ Truthy(body, "type")
    /\ KeyPattern(body.key)

\* C2: an update or a bulk update never leaves a definition of an enum-like
\* type (enum, radio, checkbox) without enum values: while every stored
\* definition carries its enum values, every update and bulk update keeps it so.
C2_UpdatesKeepEnumValues ==
    [][(request'.op \in {"update", "bulkUpdate"}
        /\ \A d \in fieldsConfigs : CarriesEnumValues(d))
       => \A d \in fieldsConfigs' : CarriesEnumValues(d)]_vars

\* C3: no two stored definitions share a key, also when creates, duplicates
\* and initialize interleave; a create that reads an existing key is refused
\* with "Field with this key already exists", and a save that meets an
\* existing key fails; both leave the store as it was.
C3_UniqueKeys ==
    /\ [](\A d1, d2 \in fieldsConfigs : d1.key = d2.key => d1 = d2)
    /\ [][/\ \A body \in InterleavedCreateBodies :
              (CreateRead(body) /\ FindOne(fieldsConfigs, body.key) # {})
              => /\ response' = Reply(400, "KeyExists")
                 /\ fieldsConfigs' = fieldsConfigs
                 /\ inflight' = inflight
          /\ \A i \in DOMAIN inflight :
              (Save(i) /\ inflight[i].op # "initialize"
                       /\ FindOne(fieldsConfigs, inflight[i].doc.key) # {})
              => /\ response'.status >= 400
                 /\ fieldsConfigs' = fieldsConfigs]_vars

\* C3 witness: two requests for the same key were both past their existence
\* check, one has saved and the save of the other was refused by the index.
C3_Witness ==
    /\ request.op = "save"
    /\ response = Reply(500, "E11000")
    /\ \E d \in fieldsConfigs : d.key = K_awb_copy

C8_CreateNeedsEnumValues ==
    [][\A body \in CreateBodies :
          (/\ Create(body)
           /\ WellFormedCreate(body)
           /\ EnumLike(body.type)
           /\ (~Has(body, "enumValues") \/ body.enumValues = <<>>))
          => (response'.status = 400 /\ fieldsConfigs' = fieldsConfigs)]_vars

\* C9: a bulk update applies every item whose key exists (and whose fields
\* pass the validators), also when another item names a key that is not in
\* the store, and changes no definition that no item names.
C9_BulkItemsIndependent ==
    [][request'.op = "bulkUpdate"
       => LET fields == request'.fields
          IN  /\ Cardinality(fieldsConfigs') = Cardinality(fieldsConfigs)
              /\ \A d \in fieldsConfigs :
                    IF \E i \in DOMAIN fields : KeyOf(fields[i]) = d.key
                    THEN \A i \in DOMAIN fields :
                           (KeyOf(fields[i]) = d.key
                            /\ ValidateUpdate(Without(fields[i], "key")))
                           => Assign(d, Without(fields[i], "key")) \in fieldsConfigs'
                    ELSE d \in fieldsConfigs']_vars

\* C9 witness: the payload's first item names a key that is not stored, a
\* later item has been applied, and a definition outside the payload exists.
C9_Witness ==
    /\ request.op = "bulkUpdate"
    /\ Len(request.fields) = 2
    /\ TruthyKey(request.fields[1], "key")
    /\ FindOne(fieldsConfigs, request.fields[1].key) = {}
    /\ \E d \in fieldsConfigs :
          /\ d.key = KeyOf(request.fields[2])
          /\ d = Assign(d, Without(request.fields[2], "key"))
    /\ \E d \in fieldsConfigs : \A i \in 1..2 : KeyOf(request.fields[i]) # d.key

WellFormedDuplicate(body) ==
    TruthyKey(body, "newKey") /\ Truthy(body, "newLabel") /\ KeyPattern(body.newKey)

\* C10: duplicate fails with NotFound when the source is missing and with
\* Conflict when the new key is taken, leaving the store unchanged; otherwise
\* it adds exactly the source's copy under the new key and label, ordered
\* after the largest order, and leaves the source as it was.
C10_Duplicate ==
    [][\A key \in DuplicateKeys, body \in DuplicateBodies :
          (Duplicate(key, body) /\ WellFormedDuplicate(body))
          => IF FindOne(fieldsConfigs, key) = {}
             THEN response' = Reply(404, "NotFound") /\ fieldsConfigs' = fieldsConfigs
             ELSE IF FindOne(fieldsConfigs, body.newKey) # {}
             THEN response' = Reply(400, "KeyExists") /\ fieldsConfigs' = fieldsConfigs
             ELSE LET source == CHOOSE d \in FindOne(fieldsConfigs, key) : TRUE
                      copy == [source EXCEPT !.key = body.newKey,
                                             !.label = body.newLabel,
                                             !.order = Max({d.order : d \in fieldsConfigs}) + 1]
                  IN  /\ response'.status = 201
                      /\ fieldsConfigs' = fieldsConfigs \cup {copy}]_vars

(***************************************************************************)
(* Properties of the import pipeline                                       *)
(***************************************************************************)
\* an Execute request that gets past the 400 and 404 checks
Started(body) ==
    /\ Has(body, "filename")
    /\ Has(body, "mappings")
    /\ body.filename \in DOMAIN tempFiles

DefaultValuesOf(body) == IF Has(body, "defaultValues") THEN body.defaultValues ELSE <<>>

ErrorRows(results) == {results.errors[k].row : k \in DOMAIN results.errors}

\* the key of a candidate under the index {userId, awb}
IndexKey(doc) == <<doc.userId, doc.awb>>

IndexKeys(coll) == {IndexKey(d) : d \in coll}

\* C1: an Execute whose file could be read answers success: true; over the N
\* rows read, successful + failed = N, errors holds one entry per failed row,
\* in ascending order of its 1-based row number and carrying that row's
\* candidate; no stored record is removed, and a row fails exactly when its own
\* candidate is invalid or its (userId, awb) is already stored or was stored
\* by an earlier row of the file, whatever happened to the other rows.
C1_RowsAreIndependent ==
    [][\A user \in Users, body \in ExecuteBodies :
        (Started(body) /\ Execute(user, body, FALSE))
        => LET data == ReadData(body.filename, tempFiles[body.filename])
               N == Len(data)
               candidates == Transform(data, body.mappings, DefaultValuesOf(body), user)
               docs == [i \in 1..N |-> NewShipment(candidates[i])]
               results == response'.data
               failedRows == ErrorRows(results)
           IN  /\ response'.status = 200
               /\ response'.success = TRUE
               /\ results.successful + results.failed = N
               /\ Len(results.errors) = results.failed
               /\ failedRows \subseteq 1..N
               /\ \A j, k \in DOMAIN results.errors :
                      j < k => results.errors[j].row < results.errors[k].row
               /\ \A k \in DOMAIN results.errors :
                      results.errors[k].data = candidates[results.errors[k].row]
               /\ shipments \subseteq shipments'
               /\ Cardinality(shipments') = Cardinality(shipments) + results.successful
               /\ \A i \in 1..N :
                      i \in failedRows <=>
                          \/ InvalidPaths(docs[i]) # {}
                          \/ IndexKey(docs[i]) \in IndexKeys(shipments)
                          \/ \E j \in 1..(i - 1) :
                                 /\ j \notin failedRows
                                 /\ IndexKey(docs[j]) = IndexKey(docs[i])
               /\ \A i \in (1..N) \ failedRows :
                      PreSave(docs[i]) \in shipments']_vars

\* C1 witness: a three-row file whose second row alone failed: the third row
\* was saved after the failure and the call answered success.
C1_Witness ==
    /\ request.op = "execute"
    /\ response.status = 200
    /\ response.success = TRUE
    /\ response.data.successful = 2
    /\ response.data.failed = 1
    /\ response.data.errors[1].row = 2

\* C5: an Execute that finds the staged file leaves no file of that name when
\* it returns, whether it answers 200 (rows saved, rows failed, or both) or
\* 500 (the parser threw).
C5_StagedFileRemoved ==
    [][\A user \in Users, body \in ExecuteBodies, readError \in BOOLEAN :
        (Started(body) /\ Execute(user, body, readError))
        => /\ body.filename \notin DOMAIN tempFiles'
           /\ response'.status \in {200, 500}]_vars

\* C5 witness: the parser threw on a staged file, the call answered 500 and
\* the file is gone.
C5_Witness ==
    /\ request.op = "execute"
    /\ response.status = 500
    /\ request.body.filename \notin DOMAIN tempFiles

Unparsable(cell) == cell # <<>> /\ ParseFloat(cell).nan

Cells == {Cell_5, Cell_abc, Cell_minus5, Cell_0, <<"x">>, <<"-">>, <<" ", "a">>}

\* every unparsable text becomes 0 in each numeric field of a candidate
ImportConvertsToZero ==
    \A f \in NumericFields, cell \in Cells : Unparsable(cell) => Convert(f, cell) = 0

\* the Joi schema refuses every unparsable text in each of its numeric keys
JoiRefusesUnparsable ==
    \A f \in NumericFields, cell \in Cells :
        Unparsable(cell) => f \in JoiErrors(Assign(ShipmentBody, [g \in {f} |-> cell]))

\* C6: import turns a present, unparsable cell mapped to a numeric field into
\* 0: the candidate of that row carries 0, the row does not fail on that field,
\* and when the row is saved the record holds 0; the interactive write refuses
\* the same text for every numeric field with 400 and stores nothing.
C6_LenientImportStrictInteractive ==
    /\ [](ImportConvertsToZero /\ JoiRefusesUnparsable)
    /\ [][/\ \A user \in Users, body \in ExecuteBodies :
               (Started(body) /\ Execute(user, body, FALSE))
               => LET data == ReadData(body.filename, tempFiles[body.filename])
                      results == response'.data
                  IN  \A i \in DOMAIN data :
                          (body.mappings = MapWeight /\ Unparsable(data[i].Weight))
                          => /\ \A k \in DOMAIN results.errors :
                                    results.errors[k].row = i
                                    => /\ results.errors[k].data.weight = 0
                                       /\ "weight" \notin results.errors[k].error.paths
                             /\ i \notin ErrorRows(results)
                                => \E d \in shipments' :
                                       /\ d.awb = Trim(data[i].AWB)
                                       /\ d.userId = user.id
                                       /\ d.weight = 0
          /\ \A user \in Users, body \in ShipmentBodies :
                 CreateShipment(user, body)
                 => \A f \in NumericFields :
                        (Has(body, f) /\ Unparsable(body[f]))
                        => /\ response'.status = 400
                           /\ f \in response'.paths
                           /\ shipments' = shipments]_vars

\* C6 witness: the store holds the record imported from the row whose weight
\* cell is "abc", with weight 0, and the interactive write of weight "abc" has
\* just been refused.
C6_Witness ==
    /\ request.op = "createShipment"
    /\ response.status = 400
    /\ "weight" \in response.paths
    /\ \E d \in shipments : d.awb = A2 /\ d.weight = 0

\* the file of Scenario 3: three rows, valid but for the weight cell of row 2
Scenario3 ==
    << [AWB |-> A1, Weight |-> Cell_5],
       [AWB |-> A2, Weight |-> Cell_abc],
       [AWB |-> A3, Weight |-> Cell_5] >>

Scenario3Step(user, body) ==
    /\ Started(body)
    /\ ExtName(body.filename) = ".csv"
    /\ tempFiles[body.filename] = Scenario3
    /\ body.mappings = MapWeight
    /\ Has(body, "defaultValues")
    /\ \A d \in shipments : d.awb \notin {A1, A2, A3}
    /\ Execute(user, body, FALSE)

AwbsStored(coll) == {d.awb : d \in coll}

\* C7 as stated: Execute over the file of Scenario 3 reports 2 successful and
\* 1 failed with one error entry, for row 2; rows 1 and 3 are stored, row 2 is
\* not.
C7_Scenario3_AsStated ==
    [][\A user \in Users, body \in ExecuteBodies :
        Scenario3Step(user, body)
        => /\ response'.data.successful = 2
           /\ response'.data.failed = 1
           /\ Len(response'.data.errors) = 1
           /\ response'.data.errors[1].row = 2
           /\ AwbsStored(shipments') = {A1, A3}]_vars

\* C7 amended: Execute over the file of Scenario 3 reports 3 successful and 0
\* failed with no error entry; all three rows are stored, row 2 with weight 0.
C7_Scenario3_AllRowsStored ==
    [][\A user \in Users, body \in ExecuteBodies :
        Scenario3Step(user, body)
        => /\ response'.data.successful = 3
           /\ response'.data.failed = 0
           /\ response'.data.errors = <<>>
           /\ AwbsStored(shipments') = {A1, A2, A3}
           /\ \A d \in shipments' : d.awb = A2 => d.weight = 0]_vars

\* C7 witness: one Execute has stored three rows, among them the row whose
\* weight cell is "abc", with weight 0.
C7_Witness ==
    /\ request.op = "execute"
    /\ response.status = 200
    /\ response.data.successful = 3
    /\ response.data.errors = <<>>
    /\ \E d \in shipments : d.awb = A2 /\ d.weight = 0

(***************************************************************************)
(* Properties of the shipment collection                                   *)
(***************************************************************************)
TotalsHold(d) ==
    /\ d.totalBeforeGst = d.baseAmount + d.royaltyMargin
    /\ d.totalAfterGst = d.totalBeforeGst + d.gst
    /\ d.grandTotal = d.totalAfterGst

\* C11: every stored shipment, whether written by the interactive create, the
\* interactive update or an imported row, has totalBeforeGst = baseAmount +
\* royaltyMargin, totalAfterGst = totalBeforeGst + gst and grandTotal =
\* totalAfterGst, whatever totals the request carried; an update of
\* baseAmount, royaltyMargin or gst leaves the three totals recomputed.
C11_TotalsAreDerived == [](\A d \in shipments : TotalsHold(d))

\* C11 witness: an update has just changed gst of a stored shipment whose
\* totals follow the new value, next to an imported row whose request carried
\* totals of its own.
C11_Witness ==
    /\ request.op = "updateShipment"
    /\ response.status = 200
    /\ Has(request.body, "gst")
    /\ \E d \in shipments : d.baseAmount = 5 /\ d.gst = 5 /\ d.grandTotal = 10
    /\ \E d \in shipments :
           /\ ~Has(d, "customerName")
           /\ d.totalBeforeGst # ExecuteWithTotals.defaultValues.totalBeforeGst

Owned(coll, userId) == {d \in coll : d.userId = userId}

\* C12: a list, get, update, delete, stats or export request of one user only
\* reads and changes that user's own shipments: what it returns is made of
\* shipments the user owns, and the shipments owned by any other user,
\* owner included, are the same after the request as before it.
C12_PerUserIsolation ==
    [][\A a \in Accounts :
          (request'.op \in {"list", "get", "updateShipment", "deleteShipment",
                            "stats", "export"}
           /\ request'.user = a.id)
          => /\ \A b \in Accounts \ {a} :
                    Owned(shipments', b.id) = Owned(shipments, b.id)
             /\ shipments \ shipments' \subseteq Owned(shipments, a.id)
             /\ shipments' \ shipments \subseteq Owned(shipments', a.id)
             /\ (request'.op \in {"list", "get", "export"} /\ response'.status = 200)
                    => response'.data \subseteq Owned(shipments, a.id)
             /\ request'.op = "stats"
                    => \E cast \in BOOLEAN :
                           response'.data = Summary(Match(shipments, a.id, cast))]_vars

(***************************************************************************)
(* Properties of the form                                                  *)
(***************************************************************************)
\* C14: the dependency check is the conjunction of its clauses: a field is
\* shown exactly when every clause of its dependencies holds, a field without
\* clauses is always shown, and a field whose only clause is shipmentStatus
\* equals Delivered is not shown while shipmentStatus is InTransit and is
\* shown while it is Delivered.
C14_EvaluateIsConjunction ==
    [](FormOpen =>
        LET F == request.fieldConfig
            V == request.values
            status == Watch(V, K_shipmentStatus)
        IN  /\ ShouldShow(F, V) <=>
                   \A i \in DOMAIN F.dependencies : DependencyHolds(F.dependencies[i], V)
            /\ F.dependencies = <<>> => ShouldShow(F, V)
            /\ (F.dependencies = <<Scenario4Dependency>> /\ status = Str(S_InTransit))
                   => ~ShouldShow(F, V)
            /\ (F.dependencies = <<Scenario4Dependency>> /\ status = Str(S_Delivered))
                   => ShouldShow(F, V)
            /\ (request.op = "render" /\ F.visible /\ F.type # "file")
                   => (response.elements # {} <=> ShouldShow(F, V)))

\* C14 witness: a field with two clauses, the first of which holds and the
\* second of which fails, has been rendered away.
C14_Witness ==
    /\ FormOpen
    /\ request.op = "render"
    /\ request.fieldConfig.visible
    /\ request.fieldConfig.type = "text"
    /\ Len(request.fieldConfig.dependencies) = 2
    /\ DependencyHolds(request.fieldConfig.dependencies[1], request.values)
    /\ ~DependencyHolds(request.fieldConfig.dependencies[2], request.values)
    /\ response.elements = {}

\* the field of the form is shown / is enforced as required
Shown(elements, F) == \E e \in elements : e.key = F.key

Enforced(elements, F) == \E e \in elements : e.key = F.key /\ e.required

\* C13: for every field F and every value map V, F is shown exactly when
\* F.visible and its dependencies hold for V, and it is enforced as required
\* exactly when F.required and it is shown; a submit never reports a field
\* that its dependencies make inactive as missing, whatever value it holds.
C13_RenderDirective ==
    [](FormOpen =>
        LET F == request.fieldConfig
            V == request.values
        IN  /\ request.op = "render" =>
                   /\ Shown(response.elements, F) <=> (F.visible /\ ShouldShow(F, V))
                   /\ Enforced(response.elements, F) <=>
                          (F.required /\ F.visible /\ ShouldShow(F, V))
            /\ (request.op = "submit" /\ ~ShouldShow(F, V)) => response.submitted)

\* C15: a submit of a required field that is visible and whose dependencies
\* hold, with no value or the empty string for it, reports the field as
\* missing, whatever the type of the field.
C15_MissingRequired ==
    [](FormOpen =>
        LET F == request.fieldConfig
            V == request.values
        IN  (/\ request.op = "submit"
             /\ F.required /\ F.visible /\ ShouldShow(F, V)
             /\ Watch(V, F.key) \in {Undefined, Str(<<>>)})
            => F.key \in response.errors)

(***************************************************************************)
(* Properties of the schema store next to the shipment collection          *)
(***************************************************************************)
\* C16: a delete of a key that no definition has is refused with NotFound and
\* changes nothing; any other delete removes the one definition of that key
\* and nothing else: the other definitions and every stored shipment, the
\* values stored under the deleted key included, are as they were.
C16_DeleteRemovesOnlyTheDefinition ==
    [][request'.op = "delete" =>
          LET found == FindOne(fieldsConfigs, request'.key)
          IN  /\ found = {} => /\ response' = Reply(404, "NotFound")
                               /\ fieldsConfigs' = fieldsConfigs
              /\ found # {} => /\ response'.status = 200
                               /\ Cardinality(found) = 1
                               /\ fieldsConfigs' = fieldsConfigs \ found
              /\ shipments' = shipments]_vars

\* C16 witness: the definition of awb has just been deleted while another
\* definition and a shipment with an awb are stored.
C16_Witness ==
    /\ request = [op |-> "delete", key |-> K_awb]
    /\ response.status = 200
    /\ FindOne(fieldsConfigs, K_awb) = {}
    /\ fieldsConfigs # {}
    /\ \E d \in shipments : d.awb = A1

\* max(existing orders), 0 for an empty store
MaxOrderOf(coll) == IF coll = {} THEN 0 ELSE Max({d.order : d \in coll})

\* C17: a create stores order = max(order of the stored definitions) + 1
\* exactly when the request carries no order, and stores the order of the
\* request as given when it carries one.
C17_CreateAssignsOrder ==
    [][\A body \in CreateBodies :
          (Create(body) /\ response'.status = 201)
          => \A doc \in fieldsConfigs' \ fieldsConfigs :
                 doc.order = IF Has(body, "order") THEN body.order
                             ELSE MaxOrderOf(fieldsConfigs) + 1]_vars

\* the characters of keys in the order of their codes
CharOrder ==
    <<"0", "1", "2", "3", "4", "5", "6", "7", "8", "9", "_",
      "a", "b", "c", "d", "e", "o", "p", "t", "w", "x", "y">>

CharRank(c) == CHOOSE i \in DOMAIN CharOrder : CharOrder[i] = c

\* a < b for strings
StringLess(a, b) ==
    \E i \in 1..(Len(b)) :
        /\ \A j \in 1..(i - 1) : j <= Len(a) /\ a[j] = b[j]
        /\ i > Len(a) \/ (i - 1 < Len(a) /\ CharRank(a[i]) < CharRank(b[i]))

\* C18: list returns every stored definition exactly once, by order
\* ascending and, among definitions of the same order, by key ascending.
C18_ListIsSortedByOrderThenKey ==
    [](request.op = "list" =>
        LET data == response.data
        IN  /\ Len(data) = Cardinality(fieldsConfigs)
            /\ {data[i] : i \in DOMAIN data} = fieldsConfigs
            /\ \A i, j \in DOMAIN data :
                   i < j => \/ data[i].order < data[j].order
                            \/ /\ data[i].order = data[j].order
                               /\ StringLess(data[i].key, data[j].key))

(***************************************************************************)
(* Properties of initialize                                                *)
(***************************************************************************)
\* the store that initialize leaves when it is called once on an empty store
Defaults_Stored == InsertMany({}, DefaultConfigs)

\* C19: initialize on a store that is not empty replies with success and
\* leaves the store as it is; on an empty store it inserts the default
\* definitions; and of two initialize requests that both found the store
\* empty, the one whose insert comes second leaves the store as the first
\* one made it.
C19_InitializeIsIdempotent ==
    [][/\ (InitializeRead /\ fieldsConfigs # {})
          => /\ response' = Reply(200, "")
             /\ fieldsConfigs' = fieldsConfigs
             /\ inflight' = inflight
       /\ \A i \in DOMAIN inflight :
             (Save(i) /\ inflight[i].op = "initialize")
             => /\ fieldsConfigs = {} => /\ fieldsConfigs' = Defaults_Stored
                                        /\ response' = Reply(201, "")
                /\ fieldsConfigs = Defaults_Stored => fieldsConfigs' = fieldsConfigs]_vars

\* C19 witness: two initialize requests found the store empty; the first has
\* inserted the defaults and the insert of the second has just left them alone.
C19_Witness ==
    /\ request = [op |-> "save", of |-> "initialize"]
    /\ response = Reply(500, "E11000")
    /\ fieldsConfigs = Defaults_Stored

(***************************************************************************)
(* Properties of the import job                                            *)
(***************************************************************************)
\* the files that Preview has staged and Execute has not yet taken
Staged == (DOMAIN tempFiles) \cap Filenames

\* C20: an import job goes from previewed to executed and no further: an
\* Execute that names a file Preview did not stage is refused with NotFound
\* and changes nothing, and an Execute that names a staged file leaves it
\* unstaged, so that no later Execute finds it.
C20_JobLifecycle ==
    [][(/\ request'.op = "execute"
        /\ Has(request'.body, "filename") /\ Has(request'.body, "mappings"))
       => /\ request'.body.filename \notin Staged
                => /\ response' = Reply(404, "File not found")
                   /\ shipments' = shipments
                   /\ tempFiles' = tempFiles
          /\ request'.body.filename \in Staged
                => request'.body.filename \notin DOMAIN tempFiles']_vars

(***************************************************************************)
(* Properties of a repeated Execute                                        *)
(***************************************************************************)
\* the rows an Execute reply accounts for
Processed(reply) == reply.data.successful + reply.data.failed

\* C21 as stated: an Execute that repeats the completed Execute before it,
\* with the same file reference, mappings and defaultValues, processes every
\* row of the file again.
C21_ReExecuteReprocesses ==
    [][(/\ request.op = "execute" /\ response.status = 200
        /\ response.data.successful > 0
        /\ request' = request)
       => /\ response'.status = 200
          /\ Processed(response') = Processed(response)]_vars

\* C21 amended: a completed Execute has removed its file, so the Execute that
\* repeats it is answered 404 File not found, processes no row and leaves
\* the stored records and the staged files as they are.
C21_ReExecuteFindsNoFile ==
    [][(/\ request.op = "execute" /\ response.status = 200
        /\ request' = request)
       => /\ request.body.filename \notin DOMAIN tempFiles
          /\ response' = Reply(404, "File not found")
          /\ shipments' = shipments
          /\ tempFiles' = tempFiles]_vars

\* C21 witness: an Execute has stored the row of AWB a3, and the Execute just
\* handled, which names the .csv file with mappings and defaultValues, found
\* no file.
C21_Witness ==
    /\ request.op = "execute"
    /\ Has(request.body, "defaultValues")
    /\ request.body.filename.ext = ".csv"
    /\ response = Reply(404, "File not found")
    /\ \E d \in shipments : d.awb = A3

(***************************************************************************)
(* Properties of a repeated bulk update                                    *)
(***************************************************************************)
\* the order and the visibility of every definition of a collection
Arrangement(coll) == {[key |-> d.key, order |-> d.order, visible |-> d.visible] : d \in coll}

NotNumeric(x) ==
    \/ x.t = "undefined"
    \/ x.t = "string" /\ (x.v = <<>> \/ ~JoiNumber(x.v).ok)

\* C23: contains and not_contains test containment between the operands as
\* strings, greater_than and less_than compare them as numbers, and a
\* greater_than or less_than clause with an operand that is missing, empty
\* or not numeric is false, so that its field is not rendered.
C23_DependencyOperators ==
    [](request.op = "render" =>
        \A i \in DOMAIN request.fieldConfig.dependencies :
            LET dep == request.fieldConfig.dependencies[i]
                fieldValue == Watch(request.values, dep.field)
                contained == Includes(StringOf(fieldValue), StringOf(dep.value))
            IN  /\ (dep.operator = "contains" /\ ~contained) => response.elements = {}
                /\ (dep.operator = "not_contains" /\ contained) => response.elements = {}
                /\ (/\ dep.operator \in {"greater_than", "less_than"}
                    /\ NotNumeric(fieldValue) \/ NotNumeric(dep.value))
                   => response.elements = {})

(***************************************************************************)
(* Properties of the activity decision on the two paths                    *)
(***************************************************************************)
\* C24: the form and the server reach the same conclusion about a field for
\* the same values: a submit that the form lets through, because the field is
\* inactive or holds a value, is never refused by validateShipment for that
\* field being required and missing.
C24_ServerAgreesWithForm ==
    [][(/\ request.op = "submit" /\ response.submitted
        /\ request.fieldConfig \in NonFileFields({request.fieldConfig})
        /\ request'.op = "createShipment")
       => ~(/\ response'.status = 400
            /\ "awb" \in response'.paths
            /\ ~Has(request'.body, "awb"))]_vars

(***************************************************************************)
(* Properties of the suggested mappings                                    *)
(***************************************************************************)
\* the header, in lower case and without punctuation, contains the fragment
Contains(header, fragment) ==
    Includes(SelectSeq(ToLowerCase(Spelling(header)), AlphaNumeric), fragment)

\* the header contains none of the fragments of the table
MatchesNoFragment(header) ==
    \A fragment \in {<<"d", "a", "t", "e">>, <<"a", "w", "b">>,
                      <<"w", "e", "i", "g", "h", "t">>, <<"p", "i", "n">>,
                      <<"c", "i", "t", "y">>, <<"s", "t", "a", "t", "e">>,
                      <<"c", "u", "s", "t", "o", "m", "e", "r">>,
                      <<"p", "i", "c", "k", "u", "p">>,
                      <<"c", "o", "u", "r", "i", "e", "r">>, <<"b", "a", "s", "e">>,
                      <<"r", "o", "y", "a", "l", "t", "y">>, <<"g", "s", "t">>,
                      <<"s", "a", "l", "e">>, <<"p", "a", "y", "m", "e", "n", "t">>,
                      <<"s", "h", "i", "p", "m", "e", "n", "t">>} :
        ~Contains(header, fragment)

\* C25 as stated: in the reply of Preview every header that contains "pin"
\* is mapped to pinCode, every header that contains "courier" to
\* courierPartner, "Customer Mobile No" to customerMoNo, and a header that
\* matches no fragment to "skip".
C25_SuggestedMapping_AsStated ==
    [](request.op = "preview" /\ response.status = 200 =>
        \A h \in response.data.headers :
            LET suggested == IF Has(response.data.suggestedMappings, h)
                             THEN response.data.suggestedMappings[h] ELSE "none"
            IN  /\ Contains(h, <<"p", "i", "n">>) => suggested = "pinCode"
                /\ Contains(h, <<"c", "o", "u", "r", "i", "e", "r">>)
                       => suggested = "courierPartner"
                /\ h = "Customer Mobile No" => suggested = "customerMoNo"
                /\ MatchesNoFragment(h) => suggested = "skip")

\* C25 amended: the first rule of the table that a header meets decides: a
\* header that contains "pin" and none of "date", "awb", "weight" is mapped
\* to pinCode, a header that contains "courier" and none of "date", "awb",
\* "weight", "pin", "city", "state", "customer", "pickup" is mapped to
\* courierPartner, "Customer Mobile No" is mapped to customerMoNo, and a
\* header that matches no fragment has no entry in the suggested mappings.
C25_SuggestedMapping ==
    [](request.op = "preview" /\ response.status = 200 =>
        \A h \in response.data.headers :
            LET suggested == IF Has(response.data.suggestedMappings, h)
                             THEN response.data.suggestedMappings[h] ELSE "none"
                none(fragments) == \A f \in fragments : ~Contains(h, f)
                beforePin == {<<"d", "a", "t", "e">>, <<"a", "w", "b">>,
                              <<"w", "e", "i", "g", "h", "t">>}
                beforeCourier == beforePin \cup
                                 {<<"p", "i", "n">>, <<"c", "i", "t", "y">>,
                                  <<"s", "t", "a", "t", "e">>,
                                  <<"c", "u", "s", "t", "o", "m", "e", "r">>,
                                  <<"p", "i", "c", "k", "u", "p">>}
            IN  /\ (Contains(h, <<"p", "i", "n">>) /\ none(beforePin))
                       => suggested = "pinCode"
                /\ (Contains(h, <<"c", "o", "u", "r", "i", "e", "r">>) /\ none(beforeCourier))
                       => suggested = "courierPartner"
                /\ h = "Customer Mobile No" => suggested = "customerMoNo"
                /\ MatchesNoFragment(h) => suggested = "none")

\* C25 witness: Preview has answered for a file whose headers are "Pin-Code",
\* "COURIER" and "Remarks".
C25_Witness ==
    /\ request.op = "preview"
    /\ response.status = 200
    /\ response.data.headers = {"Pin-Code", "COURIER", "Remarks"}
    /\ response.data.suggestedMappings =
           [h \in {"Pin-Code", "COURIER"} |->
               IF h = "COURIER" THEN "courierPartner" ELSE "pinCode"]

(***************************************************************************)
(* Properties of concurrent edits of one key                               *)
(***************************************************************************)
\* C26: edits of one key that interleave are last-write-wins: after the save
\* of an update has written, the definition stored under the key is the one
\* that update produced and replied with, and no other definition has
\* changed.
C26_LastWriteWins ==
    [][(/\ request'.op = "save" /\ request'.of = "update" /\ response'.status = 200
        /\ fieldsConfigs' # fieldsConfigs)
       => /\ FindOne(fieldsConfigs', request'.key) = {response'.data}
          /\ {d \in fieldsConfigs' : d.key # request'.key}
                 = {d \in fieldsConfigs : d.key # request'.key}]_vars

(***************************************************************************)
(* Properties of the AWB numbers of the stored shipments                   *)
(***************************************************************************)
\* C27 as stated: no two stored shipments carry the same AWB number.
C27_AwbUnique_AsStated ==
    [](\A d, e \in shipments : d.awb = e.awb => d = e)

\* C27 amended: AWB numbers are unique among the stored shipments of one
\* user: a create, an update or an import row that would give a user a second
\* shipment of an AWB number is rejected with a duplicate-key error and leaves
\* the stored shipments as they are, so that no two stored shipments of one
\* user carry the same AWB number.
C27_AwbUniquePerUser ==
    /\ [](\A d, e \in shipments : (d.userId = e.userId /\ d.awb = e.awb) => d = e)
    /\ [][/\ \A user \in Accounts, body \in AwbCreates :
              (/\ CreateShipment(user, body)
               /\ \E d \in shipments : d.userId = user.id /\ d.awb = body.awb)
              => /\ response'.status = 500 /\ response'.error = "E11000"
                 /\ shipments' = shipments
          /\ \A user \in Accounts, doc \in shipments, body \in AwbUpdates :
              (/\ UpdateShipment(user, doc, body)
               /\ doc.userId = user.id
               /\ \E d \in shipments \ {doc} : d.userId = user.id /\ d.awb = body.awb)
              => /\ response'.status = 500 /\ response'.error = "E11000"
                 /\ shipments' = shipments
          /\ \A user \in Accounts :
              (/\ Execute(user, ExecuteWithDefaults, FALSE)
               /\ ExecuteWithDefaults.filename \in DOMAIN tempFiles
               /\ \E d \in shipments : d.userId = user.id /\ d.awb = A1)
              => /\ response'.data.failed = 1
                 /\ response'.data.errors[1].error.name = "E11000"
                 /\ shipments' = shipments]_vars

\* C27 witness: both users hold a shipment of AWB a1, and the create of a
\* second one has just been refused as a duplicate.
C27_Witness ==
    /\ request.op = "createShipment"
    /\ response.status = 500 /\ response.error = "E11000"
    /\ \E d, e \in shipments : d.awb = A1 /\ e.awb = A1 /\ d.userId # e.userId

(***************************************************************************)
(* Properties of the interactive update of a shipment                      *)
(***************************************************************************)
\* the attributes an update may change besides those of its payload
SetByUpdate == {"updatedBy", "totalBeforeGst", "totalAfterGst", "grandTotal"}

\* C28: an update that succeeds changes the attributes of its payload,
\* updatedBy and the derived totals, and leaves every attribute that the
\* payload omits as stored, paymentStatus and shipmentStatus among them.
C28_UpdateKeepsOmittedAttributes ==
    [][\A user \in Accounts, doc \in shipments, body \in ShipmentUpdates :
          (/\ request' = [op |-> "updateShipment", user |-> user.id, body |-> body]
           /\ UpdateShipment(user, doc, body)
           /\ response'.status = 200)
          => \E new \in shipments' :
                 /\ shipments' = (shipments \ {doc}) \cup {new}
                 /\ \A f \in (DOMAIN doc) \ (DOMAIN body \cup SetByUpdate) :
                        Has(new, f) /\ new[f] = doc[f]]_vars

(***************************************************************************)
(* Properties of the owner of imported shipments                           *)
(***************************************************************************)
\* C29: every shipment that an Execute stores belongs to the user who sent
\* the request: its userId is that user's id and its createdBy and updatedBy
\* are that user's e-mail address, whatever the mappings and the default
\* values of the request.
C29_ImportedRecordsBelongToRequester ==
    [][\A user \in Accounts, body \in OwnerBodies :
          (/\ request' = [op |-> "execute", body |-> body]
           /\ Execute(user, body, FALSE))
          => \A d \in shipments' \ shipments :
                 /\ d.userId = user.id
                 /\ d.createdBy = user.email
                 /\ d.updatedBy = user.email]_vars

(***************************************************************************)
(* Properties of the stored orders                                         *)
(***************************************************************************)
\* C30: the order of every stored definition is a number >= 0: create,
\* update, bulk update and reorder refuse a negative order or do not store it.
C30_OrderIsNeverNegative ==
    [](\A d \in fieldsConfigs : d.order >= 0)
====
